---------------------------- MODULE Spec2Model ----------------------------
(***************************************************************************)
(* A model of the malicious-URL scanner of the Web Vulnerability Scanner   *)
(* dashboard (src/Research_Notebooks/url_scanner.py): the feature          *)
(* extractor, the structural analyzer, the risk scorer, the insight        *)
(* generator, the scan-history table and the page handler that drives      *)
(* them.                                                                   *)
(*                                                                         *)
(* A URL is a sequence of one-character strings, and urlparse, tldextract, *)
(* the regular expressions and validators.url are operators on such        *)
(* sequences that work the way the library code does.  Scores are exact    *)
(* rationals: a factor score is held in 1/300ths (300 is the least common  *)
(* multiple of the divisors 75, 10, 3 and 4 of the scorer) and a weight in *)
(* 1/100ths, so the composite score is held in 1/30000ths.                 *)
(***************************************************************************)
EXTENDS Integers, Sequences, FiniteSets, TLC

(***************************************************************************)
(* Characters and strings                                                  *)
(***************************************************************************)
Digits == {"0", "1", "2", "3", "4", "5", "6", "7", "8", "9"}

LowerSeq == <<"a", "b", "c", "d", "e", "f", "g", "h", "i", "j", "k", "l", "m",
              "n", "o", "p", "q", "r", "s", "t", "u", "v", "w", "x", "y", "z">>

UpperSeq == <<"A", "B", "C", "D", "E", "F", "G", "H", "I", "J", "K", "L", "M",
              "N", "O", "P", "Q", "R", "S", "T", "U", "V", "W", "X", "Y", "Z">>

Range(s) == {s[i] : i \in DOMAIN s}

LowerLetters == Range(LowerSeq)

UpperLetters == Range(UpperSeq)

Letters == LowerLetters \cup UpperLetters

HexDigits == Digits \cup {"a", "b", "c", "d", "e", "f", "A", "B", "C", "D", "E", "F"}

\* str.lower() on one character, and on a string
LowerChar(c) ==
    IF c \in UpperLetters
    THEN LowerSeq[CHOOSE i \in DOMAIN UpperSeq : UpperSeq[i] = c]
    ELSE c

Lower(s) == [i \in DOMAIN s |-> LowerChar(s[i])]

\* s[i:] and s[:i] of Python, with i a 0-based offset in 0..Len(s)
From(s, i) == SubSeq(s, i + 1, Len(s))

Upto(s, i) == SubSeq(s, 1, i)

MinOf(S) == CHOOSE i \in S : \A j \in S : i <= j

MaxOf(S) == CHOOSE i \in S : \A j \in S : j <= i

\* the least element of a set of offsets, d for the empty set
FirstOr(S, d) == IF S = {} THEN d ELSE MinOf(S)

LastOr(S, d) == IF S = {} THEN d ELSE MaxOf(S)

StartsAt(s, t, i) ==
    /\ i + Len(t) <= Len(s)
    /\ \A k \in 1..Len(t) : s[i + k] = t[k]

\* str.find: the 0-based offset of the first occurrence of the string t in
\* s at or after offset start, or -1
FindFrom(s, t, start) == FirstOr({i \in start..Len(s) : StartsAt(s, t, i)}, -1)

Find(s, t) == FindFrom(s, t, 0)

\* t in s
Contains(s, t) == \E i \in 0..Len(s) : StartsAt(s, t, i)

\* str.count of a single character
CountChar(s, c) == Cardinality({i \in DOMAIN s : s[i] = c})

\* the text before offset i, all of s for i = -1 (no occurrence)
CutAt(s, i) == IF i < 0 THEN s ELSE Upto(s, i)

\* the text after the character at offset i, nothing for i = -1
TailAt(s, i) == IF i < 0 THEN <<>> ELSE From(s, i + 1)

\* str.split(c): the pieces between the occurrences of c (one piece, the
\* empty string, for the empty string)
RECURSIVE Split(_, _)
SplitAt(s, c, i) ==
    IF i < 0 THEN <<s>> ELSE <<Upto(s, i)>> \o Split(From(s, i + 1), c)

\* a mutation of Split: an empty string has no pieces
SplitNonEmpty(s, c) == IF s = <<>> THEN <<>> ELSE SplitAt(s, c, Find(s, <<c>>))

Split(s, c) == SplitAt(s, c, Find(s, <<c>>))

\* c.join(parts)
RECURSIVE Join(_, _)
Join(parts, c) ==
    IF parts = <<>> THEN <<>>
    ELSE IF Len(parts) = 1 THEN parts[1]
    ELSE parts[1] \o <<c>> \o Join(Tail(parts), c)

\* str.partition(c)[0]: the text before the first c, all of s without one
Before(s, c) == CutAt(s, Find(s, <<c>>))

\* str.rpartition(c)[-1]: the text after the last c, all of s without one
AfterLast(s, c) == From(s, LastOr({i \in DOMAIN s : s[i] = c}, 0))

\* str.rstrip('.')
RECURSIVE RStripDots(_)
RStripDots(s) ==
    IF s # <<>> /\ s[Len(s)] = "." THEN RStripDots(Upto(s, Len(s) - 1)) ELSE s

RECURSIVE Rep(_, _)
Rep(c, n) == IF n <= 0 THEN <<>> ELSE <<c>> \o Rep(c, n - 1)

Min(a, b) == IF a <= b THEN a ELSE b

AllIn(s, class) == \A k \in DOMAIN s : s[k] \in class

\* [x for x in seq if x in keep]
RECURSIVE Filter(_, _)
Filter(seq, keep) ==
    IF seq = <<>> THEN <<>>
    ELSE IF Head(seq) \in keep THEN <<Head(seq)>> \o Filter(Tail(seq), keep)
    ELSE Filter(Tail(seq), keep)

(***************************************************************************)
(* urllib.parse.urlparse                                                   *)
(*                                                                         *)
(* urlsplit works through the URL from the left: the scheme is the text    *)
(* before the first ':' when that text starts with a letter and holds      *)
(* scheme characters only; a netloc follows '//'; an unbalanced bracket in *)
(* the netloc raises ValueError; then the fragment and the query are split *)
(* off.  (No input of the model holds a ';', a tab or a line break, so     *)
(* params stay empty and nothing is removed.)                              *)
(***************************************************************************)
SchemeChars == Letters \cup Digits \cup {"+", "-", "."}

\* i is the offset of the first ':'
HasScheme(url, i) ==
    /\ i > 0
    /\ url[1] \in Letters
    /\ \A k \in 1..i : url[k] \in SchemeChars

SchemeOf(url, i) == IF HasScheme(url, i) THEN Lower(Upto(url, i)) ELSE <<>>

AfterScheme(url, i) == IF HasScheme(url, i) THEN From(url, i + 1) ELSE url

HasNetloc(rest) == Len(rest) >= 2 /\ rest[1] = "/" /\ rest[2] = "/"

\* _splitnetloc(url, 2): the offset of the first of '/', '?', '#' at or after
\* offset 2, the length of url without one
NetlocEnd(rest) ==
    FirstOr({i \in 2..(Len(rest) - 1) : rest[i + 1] \in {"/", "?", "#"}}, Len(rest))

NetlocOf(rest) == IF HasNetloc(rest) THEN SubSeq(rest, 3, NetlocEnd(rest)) ELSE <<>>

AfterNetloc(rest) == IF HasNetloc(rest) THEN From(rest, NetlocEnd(rest)) ELSE rest

\* the check that raises ValueError("Invalid IPv6 URL")
BadBrackets(netloc) ==
    \/ "[" \in Range(netloc) /\ "]" \notin Range(netloc)
    \/ "]" \in Range(netloc) /\ "[" \notin Range(netloc)

SplitQuery(scheme, netloc, rest, frag) ==
    [raised |-> BadBrackets(netloc), scheme |-> scheme, netloc |-> netloc,
     path |-> CutAt(rest, Find(rest, <<"?">>)),
     query |-> TailAt(rest, Find(rest, <<"?">>)),
     fragment |-> frag]

SplitFragment(scheme, netloc, rest) ==
    SplitQuery(scheme, netloc, CutAt(rest, Find(rest, <<"#">>)),
               TailAt(rest, Find(rest, <<"#">>)))

SplitNetloc(scheme, rest) == SplitFragment(scheme, NetlocOf(rest), AfterNetloc(rest))

SplitScheme(url, i) == SplitNetloc(SchemeOf(url, i), AfterScheme(url, i))

urlparse(url) == SplitScheme(url, Find(url, <<":">>))

(***************************************************************************)
(* Numbers in strings                                                      *)
(***************************************************************************)
DigitSeq == <<"0", "1", "2", "3", "4", "5", "6", "7", "8", "9">>

DigitVal(c) == (CHOOSE i \in DOMAIN DigitSeq : DigitSeq[i] = c) - 1

\* a decimal octet without leading zeros, 0..255:
\* 25[0-5]|2[0-4]\d|1\d\d|[1-9]?\d
IsPlainOctet(s) ==
    /\ Len(s) \in 1..3
    /\ AllIn(s, Digits)
    /\ \/ Len(s) = 1
       \/ Len(s) = 2 /\ s[1] # "0"
       \/ Len(s) = 3 /\ s[1] = "1"
       \/ Len(s) = 3 /\ s[1] = "2" /\ DigitVal(s[2]) <= 4
       \/ Len(s) = 3 /\ s[1] = "2" /\ s[2] = "5" /\ DigitVal(s[3]) <= 5

(***************************************************************************)
(* tldextract.extract                                                      *)
(***************************************************************************)
\* The public-suffix rules the hosts of the model fall under, each a
\* sequence of labels.  A host under none of them has the empty suffix.
PublicSuffixes ==
    { << <<"c","o","m">> >>, << <<"x","y","z">> >>, << <<"t","k">> >>,
      << <<"u","k">> >>, << <<"c","o">>, <<"u","k">> >> }

\* _schemeless_url: the text after a leading '//' or after 'scheme://',
\* d being the offset of the first '//'
StripScheme(url, d) ==
    IF d = 0 THEN From(url, 2)
    ELSE IF \/ d < 2
            \/ url[d] # ":"
            \/ ~ AllIn(Upto(url, d - 1), SchemeChars)
         THEN url
         ELSE From(url, d + 2)

SchemelessUrl(url) == StripScheme(url, Find(url, <<"/", "/">>))

\* a bracketed host is kept whole, another loses its port and trailing dots
HostOf(a) ==
    IF a # <<>> /\ a[1] = "[" /\ Contains(a, <<"]">>)
    THEN Upto(a, Find(a, <<"]">>) + 1)
    ELSE RStripDots(Before(a, ":"))

\* lenient_netloc: up to the first '/', '?', '#', and after the last '@'
LenientNetloc(url) ==
    HostOf(AfterLast(Before(Before(Before(SchemelessUrl(url), "/"), "?"), "#"), "@"))

FourOctets(parts) == Len(parts) = 4 /\ \A k \in 1..4 : IsPlainOctet(parts[k])

\* looks_like_ip: four plain decimal octets
LooksLikeIp(host) == FourOctets(Split(host, "."))

EightHexGroups(parts) ==
    Len(parts) = 8 /\ \A k \in 1..8 : Len(parts[k]) \in 1..4 /\ AllIn(parts[k], HexDigits)

\* looks_like_ipv6 of the text between the brackets, for the forms the
\* model holds: eight groups of one to four hex digits
LooksLikeIpv6(inner) == EightHexGroups(Split(inner, ":"))

\* the labels in lower case, as the suffix rules are matched
Lower2(labels) == [k \in DOMAIN labels |-> Lower(labels[k])]

\* suffix_index: the offset of the first label of the longest public suffix
\* the labels end with, the number of labels without one
SuffixIndex(labels) ==
    FirstOr({j \in 0..(Len(labels) - 1) :
                SubSeq(Lower2(labels), j + 1, Len(labels)) \in PublicSuffixes},
            Len(labels))

\* ExtractResult(subdomain, domain, suffix) for the labels of a host name
\* whose suffix starts at label offset si
ExtractResult(labels, si) ==
    [subdomain |-> IF si >= 2 THEN Join(SubSeq(labels, 1, si - 1), ".") ELSE <<>>,
     domain    |-> IF si >= 1 THEN labels[si] ELSE <<>>,
     suffix    |-> IF si # Len(labels)
                   THEN Join(SubSeq(labels, si + 1, Len(labels)), ".") ELSE <<>>]

ExtractLabels(netloc, labels, si) ==
    IF si = Len(labels) /\ Len(labels) = 4 /\ LooksLikeIp(netloc)
    THEN [subdomain |-> <<>>, domain |-> netloc, suffix |-> <<>>]
    ELSE ExtractResult(labels, si)

SplitLabels(netloc, labels) == ExtractLabels(netloc, labels, SuffixIndex(labels))

\* _extract_netloc: an IP address is the domain as a whole; else the
\* suffix, the label before it and the labels before that
extract_netloc(netloc) ==
    IF /\ Len(netloc) >= 4
       /\ netloc[1] = "["
       /\ netloc[Len(netloc)] = "]"
       /\ LooksLikeIpv6(SubSeq(netloc, 2, Len(netloc) - 1))
    THEN [subdomain |-> <<>>, domain |-> netloc, suffix |-> <<>>]
    ELSE SplitLabels(netloc, Split(netloc, "."))

tldextract(url) == extract_netloc(LenientNetloc(url))

(***************************************************************************)
(* Regular expressions (re.search: is there a match anywhere)              *)
(*                                                                         *)
(* A pattern is modelled by the set of offsets at which a match that       *)
(* starts at offset i can end, so that every choice of the backtracking    *)
(* matcher is covered.                                                     *)
(***************************************************************************)
\* [class]{lo,hi} from offset i
RunEnds(s, i, class, lo, hi) ==
    {j \in (i + lo)..Min(i + hi, Len(s)) : \A k \in (i + 1)..j : s[k] \in class}

\* a literal from offset i
LitEnds(s, i, t) == IF StartsAt(s, t, i) THEN {i + Len(t)} ELSE {}

\* [01]?\d\d?|2[0-4]\d|25[0-5]
OctetEnds(s, i) ==
    LET opt01 == {i} \cup RunEnds(s, i, {"0", "1"}, 1, 1)
        alt1  == UNION {RunEnds(s, j, Digits, 1, 2) : j \in opt01}
        alt2  == UNION {RunEnds(s, k, Digits, 1, 1) :
                        k \in UNION {RunEnds(s, j, {"0", "1", "2", "3", "4"}, 1, 1) :
                                     j \in LitEnds(s, i, <<"2">>)}}
        alt3  == UNION {RunEnds(s, j, {"0", "1", "2", "3", "4", "5"}, 1, 1) :
                        j \in LitEnds(s, i, <<"2", "5">>)}
    IN  alt1 \cup alt2 \cup alt3

\* 0x[0-9a-fA-F]{1,2}
HexOctetEnds(s, i) ==
    UNION {RunEnds(s, j, HexDigits, 1, 2) : j \in LitEnds(s, i, <<"0", "x">>)}

\* [a-fA-F0-9]{1,4}
HexGroupEnds(s, i) == RunEnds(s, i, HexDigits, 1, 4)

\* \d+
NumberEnds(s, i) == RunEnds(s, i, Digits, 1, Len(s))

\* (P sep){n} P from offset i, for the piece P named by kind
RECURSIVE ChainEnds(_, _, _, _, _)
PieceEnds(kind, s, i) ==
    CASE kind = "octet"    -> OctetEnds(s, i)
      [] kind = "hexoctet" -> HexOctetEnds(s, i)
      [] kind = "hexgroup" -> HexGroupEnds(s, i)
      [] kind = "number"   -> NumberEnds(s, i)

ChainEnds(kind, sep, s, i, n) ==
    IF n = 0 THEN PieceEnds(kind, s, i)
    ELSE UNION {ChainEnds(kind, sep, s, k, n - 1) :
                k \in UNION {LitEnds(s, j, <<sep>>) : j \in PieceEnds(kind, s, i)}}

Search(kind, sep, s, n) == \E i \in 0..Len(s) : ChainEnds(kind, sep, s, i, n) # {}

(***************************************************************************)
(* URLFeatureExtractor                                                     *)
(***************************************************************************)
SecondLen(parts) == IF Len(parts) < 2 THEN 0 ELSE Len(parts[2])

FirstDirLength(p) == IF p.raised THEN 0 ELSE SecondLen(Split(p.path, "/"))

\* fd_length: the length of the first directory of the path, 0 on any error
\* (urlparse raising, or a path without '/')
fd_length(url) == FirstDirLength(urlparse(url))

\* ip_pattern.search(url): a dotted quad, a hex dotted quad or eight
\* colon-separated hex groups anywhere in the URL
ip_pattern_search(url) ==
    \/ Search("octet", ".", url, 3)
    \/ Search("hexoctet", ".", url, 3)
    \/ Search("hexgroup", ":", url, 7)

\* a mutation of has_ip_address: the pattern looked for in the host only
NetlocHasIp(p) == IF ~ p.raised /\ ip_pattern_search(p.netloc) THEN -1 ELSE 1

has_ip_address_of_host(url) == NetlocHasIp(urlparse(url))

has_ip_address(url) == IF ip_pattern_search(url) THEN -1 ELSE 1

\* the five features, in the order the classifier expects them
FeatureVector(url, p) ==
    IF p.raised
    THEN [raised |-> TRUE, features |-> <<>>]
    ELSE [raised |-> FALSE,
          features |-> << Len(p.netloc), Len(p.path), fd_length(url),
                          CountChar(url, "."), has_ip_address(url) >>]

\* extract_features: urlparse runs outside any try, so its ValueError
\* leaves the function
extract_features(url) == FeatureVector(url, urlparse(url))

(***************************************************************************)
(* URLSecurityAnalyzer                                                     *)
(***************************************************************************)
FactorNames ==
    <<"length", "special_chars", "subdomain_depth", "path_depth",
      "suspicious_keywords", "tld_risk">>

\* 1.0 as a factor score: scores are held in 1/300ths
ScoreUnit == 300

\* __init__: the weights (in 1/100ths) and thresholds, the high-risk TLDs
\* and the keyword list
NewAnalyzer ==
    [risk_factors |->
        [f \in Range(FactorNames) |->
            CASE f = "length"              -> [weight |-> 15, threshold |-> 75]
              [] f = "special_chars"       -> [weight |-> 20, threshold |-> 10]
              [] f = "subdomain_depth"     -> [weight |-> 15, threshold |-> 3]
              [] f = "path_depth"          -> [weight |-> 10, threshold |-> 4]
              [] f = "suspicious_keywords" -> [weight |-> 25]
              [] f = "tld_risk"            -> [weight |-> 15]],
     high_risk_tlds |-> {<<"t","k">>, <<"m","l">>, <<"g","a">>, <<"c","f">>, <<"g","q">>, <<"x","y","z">>, <<"w","o","r","k">>, <<"c","l","i","c","k">>, <<"b","i","d">>},
     suspicious_keywords |->
        <<<<"l","o","g","i","n">>,
          <<"s","i","g","n","i","n">>,
          <<"v","e","r","i","f","y">>,
          <<"s","e","c","u","r","i","t","y">>,
          <<"u","p","d","a","t","e">>,
          <<"a","c","c","o","u","n","t">>,
          <<"p","a","y","m","e","n","t">>,
          <<"c","o","n","f","i","r","m">>,
          <<"p","a","s","s","w","o","r","d">>,
          <<"b","a","n","k","i","n","g">>,
          <<"s","e","c","u","r","e">>,
          <<"a","u","t","h","e","n","t","i","c","a","t","e">>>>]

\* [^a-zA-Z0-9./\-]
IsSpecialChar(c) == c \notin (Letters \cup Digits \cup {".", "/", "-"})

\* [x for x in parts if x]
NonEmpty(parts) == Filter(parts, {x \in Range(parts) : x # <<>>})

\* a mutation of KeywordsIn: the first keyword of the list is not looked for
KeywordsInButFirst(keywords, low) ==
    Filter(Tail(keywords), {kw \in Range(Tail(keywords)) : Contains(low, kw)})

\* [kw for kw in keywords if kw in low]
KeywordsIn(keywords, low) == Filter(keywords, {kw \in Range(keywords) : Contains(low, kw)})

\* the analysis dictionary, from the parsed and the extracted URL
Analysis(self, url, parsed, extracted) ==
    IF parsed.raised
    THEN [raised |-> TRUE]
    ELSE [raised |-> FALSE,
          url_length |-> Len(url),
          special_chars_count |-> Cardinality({i \in DOMAIN url : IsSpecialChar(url[i])}),
          subdomain_depth |-> Len(Split(extracted.subdomain, ".")),
          path_depth |-> Len(NonEmpty(Split(parsed.path, "/"))),
          found_keywords |-> KeywordsIn(self.suspicious_keywords, Lower(url)),
          tld |-> extracted.suffix,
          uses_https |-> (parsed.scheme = <<"h", "t", "t", "p", "s">>),
          has_ip_address |-> Search("number", ".", url, 3),
          excessive_dots |-> (CountChar(url, ".") > 3),
          numeric_domain |-> (\E i \in DOMAIN extracted.domain : extracted.domain[i] \in Digits),
          domain_length |-> Len(extracted.domain),
          path_length |-> Len(parsed.path),
          query_length |-> Len(parsed.query)]

\* analyze_url_structure: urlparse raising leaves the function
analyze_url_structure(self, url) == Analysis(self, url, urlparse(url), tldextract(url))

\* a mutation of Clamp: the quotient by twice the threshold
ClampHalf(n, threshold) == Min((n * ScoreUnit) \div (2 * threshold), ScoreUnit)

\* a mutation of Clamp: the quotient without the clamp
ClampNone(n, threshold) == (n * ScoreUnit) \div threshold

\* min(n / threshold, 1.0), in 1/300ths
Clamp(n, threshold) == Min((n * ScoreUnit) \div threshold, ScoreUnit)

\* the risk_scores dictionary of calculate_risk_score
RiskScores(self, analysis) ==
    [f \in Range(FactorNames) |->
        CASE f = "length" ->
                Clamp(analysis.url_length, self.risk_factors["length"].threshold)
          [] f = "special_chars" ->
                Clamp(analysis.special_chars_count, self.risk_factors["special_chars"].threshold)
          [] f = "subdomain_depth" ->
                Clamp(analysis.subdomain_depth, self.risk_factors["subdomain_depth"].threshold)
          [] f = "path_depth" ->
                Clamp(analysis.path_depth, self.risk_factors["path_depth"].threshold)
          [] f = "suspicious_keywords" ->
                Clamp(Len(analysis.found_keywords), 3)
          [] f = "tld_risk" ->
                IF analysis.tld \in self.high_risk_tlds THEN ScoreUnit ELSE 0]

\* a mutation of WeightedSum: the last factor of the table is left out
RECURSIVE WeightedSumButLast(_, _, _)
WeightedSumButLast(self, scores, names) ==
    IF Len(names) <= 1 THEN 0
    ELSE scores[Head(names)] * self.risk_factors[Head(names)].weight
         + WeightedSumButLast(self, scores, Tail(names))

\* sum(score * weight for factor, score in risk_scores.items()), in 1/30000ths
RECURSIVE WeightedSum(_, _, _)
WeightedSum(self, scores, names) ==
    IF names = <<>> THEN 0
    ELSE scores[Head(names)] * self.risk_factors[Head(names)].weight
         + WeightedSum(self, scores, Tail(names))

\* a mutation of TotalAndScores: the keyword weight counted at 0.35
TotalOverweight(self, scores) ==
    [total_risk |-> WeightedSum(self, scores, FactorNames)
                    + 10 * scores["suspicious_keywords"],
     risk_scores |-> scores]

TotalAndScores(self, scores) ==
    [total_risk |-> WeightedSum(self, scores, FactorNames), risk_scores |-> scores]

\* calculate_risk_score: (total_risk, risk_scores)
calculate_risk_score(self, analysis) == TotalAndScores(self, RiskScores(self, analysis))

\* a mutation of AppendIf: the insight is appended whether or not the
\* rule's condition holds
AppendAlways(list, cond, item) == Append(list, item)

\* list.append when the rule's condition holds
AppendIf(list, cond, item) == IF cond THEN Append(list, item) ELSE list

\* a mutation of get_security_insights: a rule that does not fire leaves a
\* low-risk placeholder
get_security_insights_placeholder(self, analysis, risk_scores) ==
    [high_risk_factors |->
        AppendIf(AppendIf(<<>>, analysis.url_length > 75, <<"long_url", <<>> >>),
                 analysis.has_ip_address, <<"ip_address", <<>> >>),
     moderate_risk_factors |->
        AppendIf(<<>>, analysis.found_keywords # <<>>,
                 <<"keywords", analysis.found_keywords>>),
     low_risk_factors |->
        AppendIf(<<>>, analysis.url_length <= 75, <<"normal_length", <<>> >>),
     security_positives |->
        AppendIf(<<>>, analysis.uses_https, <<"https", <<>> >>)]

\* get_security_insights: the eight rules, in the order of the code; an
\* insight is its rule's name with the text the message interpolates
get_security_insights(self, analysis, risk_scores) ==
    LET h1 == AppendIf(<<>>, analysis.url_length > 75, <<"long_url", <<>> >>)
        h2 == AppendIf(h1, analysis.special_chars_count > 10, <<"special_chars", <<>> >>)
        m1 == AppendIf(<<>>, analysis.subdomain_depth > 3, <<"subdomains", <<>> >>)
        m2 == AppendIf(m1, analysis.found_keywords # <<>>,
                       <<"keywords", analysis.found_keywords>>)
        h3 == AppendIf(h2, analysis.tld \in self.high_risk_tlds,
                       <<"high_risk_tld", analysis.tld>>)
        h4 == AppendIf(h3, analysis.has_ip_address, <<"ip_address", <<>> >>)
        p1 == AppendIf(<<>>, analysis.uses_https, <<"https", <<>> >>)
        p2 == AppendIf(p1, ~ analysis.excessive_dots, <<"normal_dots", <<>> >>)
    IN  [high_risk_factors |-> h4, moderate_risk_factors |-> m2,
         low_risk_factors |-> <<>>, security_positives |-> p2]

(***************************************************************************)
(* validators.url, as the page handler calls it                            *)
(***************************************************************************)
ValidSchemes ==
    { <<"h","t","t","p">>, <<"h","t","t","p","s">>, <<"f","t","p">>, <<"f","t","p","s">>, <<"s","f","t","p">>, <<"s","s","h">>, <<"g","i","t">>, <<"i","r","c">>, <<"r","t","s","p">>, <<"t","e","l","n","e","t">> }

PathChars ==
    Letters \cup Digits \cup
    {"/", "-", ".", "_", "~", "!", "$", "&", "'", "(", ")", "*", "+", ",", ";", "=", ":", "@", "%"}

\* a domain name: two or more labels of letters, digits and inner hyphens,
\* the last one of two or more letters
ValidLabels(labels) ==
    /\ Len(labels) >= 2
    /\ \A k \in 1..Len(labels) :
          /\ labels[k] # <<>>
          /\ AllIn(labels[k], Letters \cup Digits \cup {"-"})
          /\ labels[k][1] # "-"
          /\ labels[k][Len(labels[k])] # "-"
    /\ Len(labels[Len(labels)]) >= 2
    /\ AllIn(labels[Len(labels)], Letters)

IsDomain(host) == ValidLabels(Split(host, "."))

ValidNetloc(netloc) ==
    /\ netloc # <<>>
    /\ CountChar(netloc, "@") = 0
    /\ IF netloc[1] = "["
       THEN /\ netloc[Len(netloc)] = "]"
            /\ LooksLikeIpv6(SubSeq(netloc, 2, Len(netloc) - 1))
       ELSE IsDomain(netloc) \/ LooksLikeIp(netloc)

\* parse_qs(query, strict_parsing=True): every field holds a '='
ValidQuery(query) ==
    query = <<>> \/ \A f \in Range(Split(query, "&")) : Contains(f, <<"=">>)

ValidParts(p) ==
    /\ ~ p.raised
    /\ p.scheme \in ValidSchemes
    /\ ValidNetloc(p.netloc)
    /\ AllIn(p.path, PathChars)
    /\ ValidQuery(p.query)

\* validators.url: urlsplit must not raise; then the scheme, the host, the
\* path and the query are validated
validators_url(url) == url # <<>> /\ ValidParts(urlparse(url))

(***************************************************************************)
(* The inputs of the model                                                 *)
(***************************************************************************)
\* what a URL of the model starts with: a scheme, none, or a malformed one
UrlPrefixes ==
    { <<"h","t","t","p","s",":","/","/">>,
      <<"h","t","t","p",":","/","/">>,
      <<>>,
      <<"h","t","!","t","p",":","/","/">> }

\* hosts: names under several suffixes, IP literals of every form the
\* extractor looks for, near misses, an unbalanced bracket, none
UrlHosts ==
    { <<"w","w","w",".","g","o","o","g","l","e",".","c","o","m">>,
      <<"1","9","2",".","1","6","8",".","1",".","1">>,
      <<"a",".","x","y","z">>,
      <<"a",".","b",".","c",".","d",".","e",".","t","k">>,
      <<"0","x","7","f",".","0","x","0",".","0","x","0",".","0","x","1">>,
      <<"[","1",":","2",":","3",":","4",":","5",":","6",":","7",":","8","]">>,
      <<"[","1">>,
      <<"s","e","c","u","r","e",".","b","a","n","k",".","c","o",".","u","k">>,
      <<"2","5","6",".","1",".","1",".","1">>,
      <<>> }

\* paths and queries: none, a keyword in either case, a deep path, a dotted
\* quad in the query, a deep path of keywords with ten special characters,
\* more special characters than that
UrlTails ==
    { <<>>,
      <<"/">>,
      <<"/","l","o","g","i","n">>,
      <<"/","L","o","g","i","n">>,
      <<"/","a","/","b","/","c","/","d","/","e">>,
      <<"/","r","?","u","=","1","0",".","0",".","0",".","1">>,
      <<"/","v","e","r","i","f","y","/","a","c","c","o","u","n","t","/","u","p","d","a","t","e","/","c","o","n","f","i","r","m","?","a","=","1","&","b","=","2","&","c","=","3","&","d","=","4","&","e","=","5">>,
      <<"/","?","a","=","1","&","b","=","2","&","c","=","3","&","d","=","4","&","e","=","5","&","f","=","6">> }

\* the longest URL of the model
MaxUrlLen == 80

\* the lengths a URL is padded to: at the length threshold, one above it,
\* and the longest
PadLengths == {NewAnalyzer.risk_factors["length"].threshold,
               NewAnalyzer.risk_factors["length"].threshold + 1,
               MaxUrlLen}

BaseURLs == {p \o h \o t : p \in UrlPrefixes, h \in UrlHosts, t \in UrlTails}

\* a URL with a path, padded with letters to each of the lengths
PaddedURLs ==
    {p \o h \o t \o Rep("z", n - Len(p \o h \o t)) :
        p \in UrlPrefixes, h \in UrlHosts, t \in UrlTails \ {<<>>}, n \in PadLengths}

URLS == BaseURLs \cup PaddedURLs

\* the URLs entered on the scanner page
AppURLs ==
    { <<"h","t","t","p","s",":","/","/","w","w","w",".","g","o","o","g","l","e",".","c","o","m">>,
      <<"h","t","t","p",":","/","/","1","9","2",".","1","6","8",".","1",".","1","/","l","o","g","i","n">>,
      <<"w","w","w",".","g","o","o","g","l","e",".","c","o","m">>,
      <<"h","t","t","p",":","/","/","[","1","/","l","o","g","i","n">>,
      <<"h","t","t","p",":","/","/","a",".","x","y","z","/","r","?","u","=","1","0",".","0",".","0",".","1">> }

\* what model.predict gives: a probability, in 1/100ths, or an exception
Probabilities == {30, 50, 90}

PredictOutcomes == {[raised |-> TRUE, p |-> 0]} \cup
                   {[raised |-> FALSE, p |-> q] : q \in Probabilities}

\* the longest run of scan requests
MaxRequests == 3

(***************************************************************************)
(* State                                                                   *)
(***************************************************************************)
VARIABLES
    url,          \* the URL of the request at hand
    features,     \* what extract_features gave for it, if it ran
    prediction,   \* the classifier's probability for it, if there is one
    predicted,    \* what model.predict did for it, if it was called
    analysis,     \* what analyze_url_structure gave, if it ran
    risk,         \* what calculate_risk_score gave, if it ran
    insights,     \* what get_security_insights gave, if it ran
    shown,        \* what the page shows for the request
    calls,        \* the operations the request went through, in order
    model,        \* URLScannerApp.model: the loaded classifier, or none
    url_scans,    \* the rows of the url_scans table
    clock,        \* the time, in requests made
    analyzer,     \* the URLSecurityAnalyzer of the request
    assessed,     \* per URL of the page: the first assessment shown for it,
                  \* and how many times one was shown
    scanned,      \* per URL of the page: the prediction of the latest
                  \* add_scan for it
    requests,     \* the scan requests running side by side, each with its
                  \* own locals
    scheduled_scans, \* the rows of the scheduled_scans table, by id
    schedulers,   \* the ScanScheduler instances, each with its loop thread
    datetime_now, \* datetime.now(), in polling periods
    zap_log,      \* the scan calls made to ZAP: which, for which scan, by
                  \* which scheduler
    zap_server,   \* the ZAP daemon: its spider scans and its active scans
    zap_scanner,  \* the ZAPScanner.start_scan call at hand, and its position
    users,        \* the rows of the users table, by username
    session_state, \* st.session_state of the browser session
    rendered,     \* what the last run of app.py rendered
    returned      \* what the last call of DatabaseOperations or of
                  \* AuthenticationManager returned

vars == <<url, features, prediction, predicted, analysis, risk, insights, shown, calls,
          model, url_scans, clock, analyzer, assessed, scanned,
          requests, scheduled_scans, schedulers, datetime_now, zap_log,
          zap_server, zap_scanner, users, session_state, rendered, returned>>

\* the state of the requests run side by side, and of the scan scheduler
concVars == <<requests>>

schedVars == <<scheduled_scans, schedulers, datetime_now, zap_log>>

\* the scanner page, as the requests run side by side and the scheduler
\* leave it
pageVars == <<url, features, prediction, predicted, analysis, risk, insights, shown, calls,
              model, url_scans, clock, assessed, scanned>>

\* nothing runs side by side
NoRequests == requests = <<>>

\* no ScanScheduler was made
NoScheduler ==
    scheduled_scans = <<>> /\ schedulers = <<>> /\ datetime_now = 0 /\ zap_log = {}

\* the state of the ZAP scanner page and of the accounts
zapVars == <<zap_server, zap_scanner>>

authVars == <<users, session_state, rendered, returned>>

\* no scan was asked of ZAPScanner
NoZap ==
    /\ zap_server = [spiders |-> <<>>, ascans |-> <<>>]
    /\ zap_scanner = [pc |-> "idle", scan_mode |-> "", scan_policy |-> "",
                      spider_scan_id |-> 0, scan_id |-> <<>>, raised |-> FALSE, call |-> 0]

\* app.py has not run
NoAuth == users = <<>> /\ session_state = <<>> /\ rendered = "none" /\ returned = <<>>

\* a value that may be absent (Python's None): the empty or a one-element
\* sequence
None == <<>>

Some(x) == <<x>>

NothingShown ==
    [error |-> "", risk_score |-> None, risk_color |-> "",
     ml_confidence |-> None, pred_color |-> "", insights |-> None]

(***************************************************************************)
(* URLDatabase                                                             *)
(***************************************************************************)
\* hashlib.md5(url.encode()).hexdigest(): a digest that is a function of
\* the URL, and differs between the URLs of the model
md5_hexdigest(u) == <<"md5", u>>

\* a mutation of add_scan: a probability of exactly 0.5 is stored as benign
add_scan_strict(table, u, p, now) ==
    {r \in table : r.id # md5_hexdigest(u)} \cup
    {[id |-> md5_hexdigest(u), url |-> u, timestamp |-> now,
      prediction |-> p, is_malicious |-> (p > 50)]}

\* a mutation of add_scan: a plain INSERT into a table without the key
add_scan_insert(table, u, p, now) ==
    table \cup {[id |-> md5_hexdigest(u), url |-> u, timestamp |-> now,
                 prediction |-> p, is_malicious |-> (p >= 50)]}

\* add_scan: INSERT OR REPLACE under the primary key id
add_scan(table, u, p, now) ==
    {r \in table : r.id # md5_hexdigest(u)} \cup
    {[id |-> md5_hexdigest(u), url |-> u, timestamp |-> now,
      prediction |-> p, is_malicious |-> (p >= 50)]}

(***************************************************************************)
(* URLScannerApp                                                           *)
(***************************************************************************)
\* the outcome of predict_url with a model, f being what extract_features
\* did and out what model.predict does
Predicted(table, now, u, out, f) ==
    IF f.raised
    THEN [prediction |-> None, features |-> None, url_scans |-> table,
          calls |-> <<"extract_features">>, error |-> "Error predicting URL"]
    ELSE IF out.raised
    THEN [prediction |-> None, features |-> None, url_scans |-> table,
          calls |-> <<"extract_features", "predict">>,
          error |-> "Error predicting URL"]
    ELSE [prediction |-> Some(out.p), features |-> Some(f.features),
          url_scans |-> add_scan(table, u, out.p, now),
          calls |-> <<"extract_features", "predict", "add_scan">>,
          error |-> ""]

\* predict_url: nothing without a model; else the features, the
\* prediction and the history row, and (None, None) with an error shown
\* when any of them raises
predict_url(self_model, table, now, u, out) ==
    IF self_model = "none"
    THEN [prediction |-> None, features |-> None, url_scans |-> table,
          calls |-> <<>>, error |-> "Model not loaded"]
    ELSE Predicted(table, now, u, out, extract_features(u))

\* "red" if risk_score > 0.7 else "orange" if risk_score > 0.4 else "green"
RiskColor(total) ==
    IF total * 10 > 7 * ScoreUnit * 100 THEN "red"
    ELSE IF total * 10 > 4 * ScoreUnit * 100 THEN "orange"
    ELSE "green"

\* "red" if prediction > 0.5 else "green"
PredColor(p) == IF p > 50 THEN "red" ELSE "green"

\* a mutation of Rendered: the ML confidence shown is the mean of the
\* classifier's probability and the risk score
RenderedFused(p, a, r, ins) ==
    [analysis |-> Some(a), risk |-> Some(r), insights |-> Some(ins),
     calls |-> <<"analyze_url_structure", "calculate_risk_score",
                 "get_security_insights">>,
     shown |-> [error |-> "",
                risk_score |-> Some(r.total_risk),
                risk_color |-> RiskColor(r.total_risk),
                ml_confidence |-> Some((p + r.total_risk \div ScoreUnit) \div 2),
                pred_color |-> PredColor(p),
                insights |-> Some(ins)]]

\* what display_security_analysis puts on the page: the risk score and the
\* ML confidence side by side, each with its colour, and the insights
Rendered(p, a, r, ins) ==
    [analysis |-> Some(a), risk |-> Some(r), insights |-> Some(ins),
     calls |-> <<"analyze_url_structure", "calculate_risk_score",
                 "get_security_insights">>,
     shown |-> [error |-> "",
                risk_score |-> Some(r.total_risk),
                risk_color |-> RiskColor(r.total_risk),
                ml_confidence |-> Some(p),
                pred_color |-> PredColor(p),
                insights |-> Some(ins)]]

Scored(self, p, a, r) == Rendered(p, a, r, get_security_insights(self, a, r.risk_scores))

Analyzed(self, p, a) ==
    IF a.raised
    THEN [analysis |-> None, risk |-> None, insights |-> None,
          calls |-> <<"analyze_url_structure">>,
          shown |-> [NothingShown EXCEPT !.error = "ValueError"]]
    ELSE Scored(self, p, a, calculate_risk_score(self, a))

\* a mutation of display_security_analysis: the classifier's probability is
\* blended into the risk score
BlendedScore(p, r) == [r EXCEPT !.total_risk = (@ + p * ScoreUnit) \div 2]

BlendedAnalyzed(self, p, a) ==
    IF a.raised
    THEN [analysis |-> None, risk |-> None, insights |-> None,
          calls |-> <<"analyze_url_structure">>,
          shown |-> [NothingShown EXCEPT !.error = "ValueError"]]
    ELSE Scored(self, p, a, BlendedScore(p, calculate_risk_score(self, a)))

display_blended(self, u, p) == BlendedAnalyzed(self, p, analyze_url_structure(self, u))

\* display_security_analysis: the three steps of the analyzer on the URL
\* alone, then the page
display_security_analysis(self, u, p) == Analyzed(self, p, analyze_url_structure(self, u))

\* a mutation of PageAccepts: the URL is not validated
PageAcceptsAnyUrl(self_model, u) == self_model # "none"

\* the condition under which the page scans the URL it was given
PageAccepts(self_model, u) == self_model # "none" /\ validators_url(u)

\* the first assessment shown for each URL, and the number shown
Remember(memo, u, d) ==
    IF d.insights = None THEN memo
    ELSE IF memo[u] = None
    THEN [memo EXCEPT ![u] = Some([analysis |-> d.analysis[1], risk |-> d.risk[1],
                                   insights |-> d.insights[1], times |-> 1])]
    ELSE [memo EXCEPT ![u][1].times = @ + 1]

\* the page after display_security_analysis
Displayed(u, pr, d) ==
    /\ analysis' = d.analysis
    /\ risk' = d.risk
    /\ insights' = d.insights
    /\ shown' = d.shown
    /\ calls' = pr.calls \o d.calls
    /\ assessed' = Remember(assessed, u, d)

\* the page after predict_url: the analysis is displayed only when there is
\* a prediction
Scanned(u, pr) ==
    /\ prediction' = pr.prediction
    /\ features' = pr.features
    /\ url_scans' = pr.url_scans
    /\ scanned' = IF "add_scan" \in Range(pr.calls)
                  THEN [scanned EXCEPT ![u] = pr.prediction]
                  ELSE scanned
    /\ IF pr.prediction # None
       THEN Displayed(u, pr, display_security_analysis(NewAnalyzer, u, pr.prediction[1]))
       ELSE /\ analysis' = None
            /\ risk' = None
            /\ insights' = None
            /\ shown' = [NothingShown EXCEPT !.error = pr.error]
            /\ calls' = pr.calls
            /\ UNCHANGED assessed

\* the page after st.error("Please enter a valid URL")
Rejected ==
    /\ prediction' = None
    /\ features' = None
    /\ analysis' = None
    /\ risk' = None
    /\ insights' = None
    /\ shown' = [NothingShown EXCEPT !.error = "Please enter a valid URL"]
    /\ calls' = <<>>
    /\ UNCHANGED <<url_scans, assessed, scanned>>

\* show_url_scanner_page, the button pressed with u in the text field and
\* out what the classifier does when asked: a new URLScannerApp, then the
\* prediction and, when there is one, the analysis
PerformSecurityAnalysis(u, out) ==
    /\ clock < MaxRequests
    /\ clock' = clock + 1
    /\ url' = u
    /\ analyzer' = NewAnalyzer
    /\ UNCHANGED <<model, concVars, schedVars, zapVars, authVars>>
    /\ IF PageAccepts(model, u)
       THEN Scanned(u, predict_url(model, url_scans, clock + 1, u, out))
       ELSE Rejected
    /\ predicted' = IF "predict" \in Range(calls') THEN Some(out) ELSE None

\* after construction: no request yet, an empty history, and the classifier
\* loaded or not (load_model_resources gives None when loading fails)
Init ==
    /\ url = <<>>
    /\ features = None
    /\ prediction = None
    /\ predicted = None
    /\ analysis = None
    /\ risk = None
    /\ insights = None
    /\ shown = NothingShown
    /\ calls = <<>>
    /\ model \in {"loaded", "none"}
    /\ url_scans = {}
    /\ clock = 0
    /\ analyzer = NewAnalyzer
    /\ assessed = [u \in AppURLs |-> None]
    /\ scanned = [u \in AppURLs |-> None]
    /\ NoRequests
    /\ NoScheduler
    /\ NoZap
    /\ NoAuth

Next == \E u \in AppURLs, out \in PredictOutcomes : PerformSecurityAnalysis(u, out)

Spec == Init /\ [][Next]_vars

(***************************************************************************)
(* The analysis core on its own: each function applied to any URL          *)
(***************************************************************************)
appVars == <<prediction, predicted, shown, calls, model, url_scans, clock, analyzer, assessed, scanned,
             concVars, schedVars, zapVars, authVars>>

ExtractFeatures ==
    /\ features = None
    /\ features' = Some(extract_features(url))
    /\ UNCHANGED <<url, analysis, risk, insights>>
    /\ UNCHANGED appVars

AnalyzeUrlStructure ==
    /\ analysis = None
    /\ analysis' = Some(analyze_url_structure(analyzer, url))
    /\ UNCHANGED <<url, features, risk, insights>>
    /\ UNCHANGED appVars

CalculateRiskScore ==
    /\ analysis # None
    /\ ~ analysis[1].raised
    /\ risk = None
    /\ risk' = Some(calculate_risk_score(analyzer, analysis[1]))
    /\ UNCHANGED <<url, features, analysis, insights>>
    /\ UNCHANGED appVars

GetSecurityInsights ==
    /\ risk # None
    /\ insights = None
    /\ insights' = Some(get_security_insights(analyzer, analysis[1], risk[1].risk_scores))
    /\ UNCHANGED <<url, features, analysis, risk>>
    /\ UNCHANGED appVars

InitCore ==
    /\ url \in URLS
    /\ features = None
    /\ prediction = None
    /\ predicted = None
    /\ analysis = None
    /\ risk = None
    /\ insights = None
    /\ shown = NothingShown
    /\ calls = <<>>
    /\ model = "none"
    /\ url_scans = {}
    /\ clock = 0
    /\ analyzer = NewAnalyzer
    /\ assessed = [u \in AppURLs |-> None]
    /\ scanned = [u \in AppURLs |-> None]
    /\ NoRequests
    /\ NoScheduler
    /\ NoZap
    /\ NoAuth

NextCore ==
    \/ ExtractFeatures
    \/ AnalyzeUrlStructure
    \/ CalculateRiskScore
    \/ GetSecurityInsights

SpecCore == InitCore /\ [][NextCore]_vars

(***************************************************************************)
(* Scan requests side by side: the three operations of the analyzer, each  *)
(* request with its own locals, over one configuration                     *)
(***************************************************************************)
\* the number of requests running side by side
MaxConcurrent == 2

RequestIds == 1..MaxConcurrent

\* a request about to call analyze_url_structure
NewRequest(u) ==
    [url |-> u, pc |-> "analyze", analysis |-> None, risk |-> None, insights |-> None]

\* the request after analyze_url_structure: its local analysis, or the
\* exception
AnalyzedRequest(r, a) ==
    IF a.raised
    THEN [r EXCEPT !.pc = "raised"]
    ELSE [r EXCEPT !.analysis = Some(a), !.pc = "score"]

\* a mutation of ScoreInput: the analysis is kept in one place shared by
\* the requests
ScoreInputShared(reqs, i) ==
    IF \E j \in DOMAIN reqs : j # i /\ reqs[j].analysis # None
    THEN reqs[CHOOSE j \in DOMAIN reqs : j # i /\ reqs[j].analysis # None].analysis[1]
    ELSE reqs[i].analysis[1]

\* the analysis calculate_risk_score is given: the caller's local
ScoreInput(reqs, i) == reqs[i].analysis[1]

\* the request after calculate_risk_score
ScoredRequest(r, score) == [r EXCEPT !.risk = Some(score), !.pc = "insights"]

\* the request after get_security_insights
InsightsOfRequest(r, ins) == [r EXCEPT !.insights = Some(ins), !.pc = "done"]

AnalyzeRequest(i) ==
    /\ requests[i].pc = "analyze"
    /\ requests' = [requests EXCEPT ![i] =
                       AnalyzedRequest(@, analyze_url_structure(analyzer, @.url))]
    /\ UNCHANGED <<analyzer, pageVars, schedVars, zapVars, authVars>>

ScoreRequest(i) ==
    /\ requests[i].pc = "score"
    /\ requests' = [requests EXCEPT ![i] =
                       ScoredRequest(@, calculate_risk_score(analyzer, ScoreInput(requests, i)))]
    /\ UNCHANGED <<analyzer, pageVars, schedVars, zapVars, authVars>>

InsightsRequest(i) ==
    /\ requests[i].pc = "insights"
    /\ requests' = [requests EXCEPT ![i] =
                       InsightsOfRequest(@, get_security_insights(analyzer, @.analysis[1],
                                                                  @.risk[1].risk_scores))]
    /\ UNCHANGED <<analyzer, pageVars, schedVars, zapVars, authVars>>

InitConcurrent ==
    /\ url = <<>>
    /\ features = None
    /\ prediction = None
    /\ predicted = None
    /\ analysis = None
    /\ risk = None
    /\ insights = None
    /\ shown = NothingShown
    /\ calls = <<>>
    /\ model = "loaded"
    /\ url_scans = {}
    /\ clock = 0
    /\ analyzer = NewAnalyzer
    /\ assessed = [u \in AppURLs |-> None]
    /\ scanned = [u \in AppURLs |-> None]
    /\ requests \in [RequestIds -> {NewRequest(u) : u \in AppURLs}]
    /\ NoScheduler
    /\ NoZap
    /\ NoAuth

NextConcurrent ==
    \E i \in RequestIds :
        \/ AnalyzeRequest(i)
        \/ ScoreRequest(i)
        \/ InsightsRequest(i)

SpecConcurrent == InitConcurrent /\ [][NextConcurrent]_vars

(***************************************************************************)
(* ScanScheduler: the schedule page and the polling loops                  *)
(***************************************************************************)
\* the ScanScheduler instances made, one by each rendering of the page
MaxSchedulers == 2

SchedulerIds == 1..MaxSchedulers

\* the rows of scheduled_scans
MaxScans == 2

\* the latest time, in polling periods
MaxTime == 1

\* the scan types of the form
ScanTypes == {"quick", "full"}

\* what a ZAP scan call does: it returns or raises
ZapOutcomes == {"ok", "spider_raises", "ascan_raises"}

\* __init__: no ZAP client, no thread (its loop is nowhere), not running
NewScanScheduler ==
    [zap |-> "none", is_running |-> FALSE, pc |-> "none",
     pending |-> <<>>, scan_id |-> 0, scan_type |-> "", current_time |-> 0]

\* schedule_scan: INSERT, the id from AUTOINCREMENT and the status from its
\* default
schedule_scan(table, scan_type, schedule_time) ==
    Append(table, [id |-> Len(table) + 1, scan_type |-> scan_type,
                   schedule_time |-> schedule_time, status |-> "scheduled"])

\* start_scheduler: a thread on _scheduler_loop unless is_running
start_scheduler(self) ==
    IF ~ self.is_running
    THEN [self EXCEPT !.is_running = TRUE, !.pc = "select"]
    ELSE self

\* a mutation of SelectOverdue: every scheduled scan, due or not
SelectScheduled(table, current_time) ==
    Filter([k \in DOMAIN table |-> k],
           {k \in DOMAIN table : table[k].status = "scheduled"})

\* SELECT id FROM scheduled_scans WHERE schedule_time <= ? AND status =
\* 'scheduled'
SelectOverdue(table, current_time) ==
    Filter([k \in DOMAIN table |-> k],
           {k \in DOMAIN table : /\ table[k].schedule_time <= current_time
                                 /\ table[k].status = "scheduled"})

\* UPDATE scheduled_scans SET status = ? WHERE id = ?
UpdateStatus(table, status, scan_id) == [table EXCEPT ![scan_id].status = status]

\* connect_to_zap unless there is a client: self.zap stays None when the
\* client cannot be made
ZapAfterConnect(zap, connected) ==
    IF zap = "none" /\ connected THEN "connected" ELSE zap

\* the page with the table as the form left it: the scans are listed, and
\* the scheduler of this rendering is started if there are any
PageWithScans(table) ==
    /\ scheduled_scans' = table
    /\ schedulers' = Append(schedulers, IF table # <<>>
                                        THEN start_scheduler(NewScanScheduler)
                                        ELSE NewScanScheduler)

\* show_schedule_page_wrapper: a new ScanScheduler; the form, submitted or
\* not, refusing a time in the past; the list; start_scheduler
ShowSchedulePage(submitted, scan_type, schedule_datetime) ==
    /\ Len(schedulers) < MaxSchedulers
    /\ submitted => Len(scheduled_scans) < MaxScans
    /\ IF submitted /\ ~ (schedule_datetime < datetime_now)
       THEN PageWithScans(schedule_scan(scheduled_scans, scan_type, schedule_datetime))
       ELSE PageWithScans(scheduled_scans)
    /\ UNCHANGED <<datetime_now, zap_log, analyzer, pageVars, concVars, zapVars, authVars>>

\* a mutation of Selected: the ids of the pass are dropped
SelectedNothing(self, current_time, ids) == self

\* the scheduler after the SELECT of a pass: the ids to run, or, there
\* being none, time.sleep(60) and the next pass
Selected(self, current_time, ids) ==
    IF ids = <<>>
    THEN self
    ELSE [self EXCEPT !.current_time = current_time, !.pending = ids, !.pc = "for"]

\* _scheduler_loop, the SELECT of a pass
LoopSelect(i) ==
    /\ i \in DOMAIN schedulers
    /\ schedulers[i].pc = "select"
    /\ schedulers[i].is_running
    /\ schedulers' = [schedulers EXCEPT ![i] =
                         Selected(@, datetime_now, SelectOverdue(scheduled_scans, datetime_now))]
    /\ UNCHANGED <<scheduled_scans, datetime_now, zap_log, analyzer, pageVars, concVars, zapVars, authVars>>

\* run_scan up to its first commit, for the next id of the pass: the row is
\* read, ZAP is connected to if need be, the status becomes 'running'
RunScanBegin(i, connected) ==
    /\ i \in DOMAIN schedulers
    /\ schedulers[i].pc = "for"
    /\ schedulers[i].pending # <<>>
    /\ schedulers' = [schedulers EXCEPT
                         ![i].scan_id = Head(schedulers[i].pending),
                         ![i].scan_type = scheduled_scans[Head(schedulers[i].pending)].scan_type,
                         ![i].pending = Tail(schedulers[i].pending),
                         ![i].zap = ZapAfterConnect(@, connected),
                         ![i].pc = "scan"]
    /\ scheduled_scans' = UpdateStatus(scheduled_scans, "running", Head(schedulers[i].pending))
    /\ UNCHANGED <<datetime_now, zap_log, analyzer, pageVars, concVars, zapVars, authVars>>

\* the calls run_scan makes for a scan type when ZAP does as outcome says:
\* the spider, then for a full scan the active scan
ZapCalls(scan_type, outcome) ==
    IF scan_type = "full" /\ outcome # "spider_raises"
    THEN <<"spider.scan", "ascan.scan">>
    ELSE <<"spider.scan">>

\* whether run_scan gets through its calls
ZapRaises(scan_type, outcome) ==
    \/ outcome = "spider_raises"
    \/ scan_type = "full" /\ outcome = "ascan_raises"

\* the log with the calls of scheduler i for a scan
Logged(log, i, scan_id, called) ==
    log \cup {[by |-> i, scan_id |-> scan_id, call |-> called[k]] : k \in DOMAIN called}

\* the scheduler after run_scan returns: the next id of the pass, or,
\* the pass over, time.sleep(60) and the next pass
AfterScan(self) ==
    [self EXCEPT !.pc = IF self.pending = <<>> THEN "select" ELSE "for",
                 !.current_time = IF self.pending = <<>> THEN 0 ELSE @,
                 !.scan_id = 0,
                 !.scan_type = ""]

\* a mutation of ScanSucceeds: a failure is not noticed
ScanSucceedsAlways(self, outcome) == TRUE

\* run_scan gets to its last statement of the try block: there is a client
\* and no call raises
ScanSucceeds(self, outcome) == self.zap # "none" /\ ~ ZapRaises(self.scan_type, outcome)

\* run_scan from the scan to its last commit: without a client the first
\* call raises before anything is sent; the status becomes 'completed', or
\* 'failed' in the handler.  (The calls and the commit are one step: no
\* other step reads what lies between them.)
RunScanEnd(i, outcome) ==
    /\ i \in DOMAIN schedulers
    /\ schedulers[i].pc = "scan"
    /\ zap_log' = IF schedulers[i].zap = "none"
                  THEN zap_log
                  ELSE Logged(zap_log, i, schedulers[i].scan_id,
                              ZapCalls(schedulers[i].scan_type, outcome))
    /\ scheduled_scans' = UpdateStatus(scheduled_scans,
                              IF ScanSucceeds(schedulers[i], outcome)
                              THEN "completed" ELSE "failed",
                              schedulers[i].scan_id)
    /\ schedulers' = [schedulers EXCEPT ![i] = AfterScan(@)]
    /\ UNCHANGED <<datetime_now, analyzer, pageVars, concVars, zapVars, authVars>>

\* time passes
Tick ==
    /\ datetime_now < MaxTime
    /\ datetime_now' = datetime_now + 1
    /\ UNCHANGED <<scheduled_scans, schedulers, zap_log, analyzer, pageVars, concVars, zapVars, authVars>>

InitSched ==
    /\ url = <<>>
    /\ features = None
    /\ prediction = None
    /\ predicted = None
    /\ analysis = None
    /\ risk = None
    /\ insights = None
    /\ shown = NothingShown
    /\ calls = <<>>
    /\ model = "loaded"
    /\ url_scans = {}
    /\ clock = 0
    /\ analyzer = NewAnalyzer
    /\ assessed = [u \in AppURLs |-> None]
    /\ scanned = [u \in AppURLs |-> None]
    /\ NoRequests
    /\ NoScheduler
    /\ NoZap
    /\ NoAuth

NextSched ==
    \/ \E submitted \in BOOLEAN, scan_type \in ScanTypes, t \in 0..MaxTime :
          ShowSchedulePage(submitted, scan_type, t)
    \/ \E i \in SchedulerIds : LoopSelect(i)
    \/ \E i \in SchedulerIds, connected \in BOOLEAN : RunScanBegin(i, connected)
    \/ \E i \in SchedulerIds, outcome \in ZapOutcomes : RunScanEnd(i, outcome)
    \/ Tick

SpecSched == InitSched /\ [][NextSched]_vars

\* the loop threads run on: each step of each loop is taken if it stays
\* possible
FairLoops ==
    \A i \in SchedulerIds :
        /\ WF_vars(LoopSelect(i))
        /\ WF_vars(\E connected \in BOOLEAN : RunScanBegin(i, connected))
        /\ WF_vars(\E outcome \in ZapOutcomes : RunScanEnd(i, outcome))

SpecSchedFair == SpecSched /\ FairLoops

(***************************************************************************)
(* Properties of the risk scorer (checked under SpecCore)                  *)
(***************************************************************************)
\* the composite score 1.0, in 1/30000ths
FullScore == ScoreUnit * 100

\* C1: for every URL that analyze_url_structure gives an analysis for, the
\* composite score of calculate_risk_score lies in [0, 1].
C1_CompositeInUnitInterval ==
    risk # None => risk[1].total_risk >= 0 /\ risk[1].total_risk <= FullScore

\* a URL that drives every factor to its clamp, so that the score is 1.0
C1_Witness == risk # None /\ risk[1].total_risk = FullScore

\* C2: each of the six factor scores of calculate_risk_score lies in [0, 1].
C2_FactorsInUnitInterval ==
    risk # None =>
        /\ DOMAIN risk[1].risk_scores = Range(FactorNames)
        /\ \A f \in Range(FactorNames) :
              risk[1].risk_scores[f] >= 0 /\ risk[1].risk_scores[f] <= ScoreUnit

\* raw values above their thresholds, held at the clamp
C2_Witness ==
    /\ risk # None
    /\ analysis[1].url_length > 75
    /\ analysis[1].special_chars_count > 10
    /\ risk[1].risk_scores["length"] = ScoreUnit
    /\ risk[1].risk_scores["special_chars"] = ScoreUnit

\* the weights of the fixed table, in 1/100ths, added up
RECURSIVE SumOfWeights(_)
SumOfWeights(names) ==
    IF names = <<>> THEN 0
    ELSE analyzer.risk_factors[Head(names)].weight + SumOfWeights(Tail(names))

\* C3: calculate_risk_score returns the weighted sum of the fixed table,
\* 0.15*min(len/75,1) + 0.20*min(special/10,1) + 0.15*min(subdomains/3,1)
\* + 0.10*min(path/4,1) + 0.25*min(keywords/3,1) + 0.15*[tld is high-risk],
\* the weights summing to 1.0 and every factor counted once.  (In
\* 1/30000ths: n/75 is 4n/300, n/10 is 30n/300, n/3 is 100n/300 and n/4 is
\* 75n/300.)
C3_FixedWeightedSum ==
    risk # None =>
        /\ risk[1].total_risk =
              15 * Min(4 * analysis[1].url_length, 300)
            + 20 * Min(30 * analysis[1].special_chars_count, 300)
            + 15 * Min(100 * analysis[1].subdomain_depth, 300)
            + 10 * Min(75 * analysis[1].path_depth, 300)
            + 25 * Min(100 * Len(analysis[1].found_keywords), 300)
            + 15 * (IF analysis[1].tld \in NewAnalyzer.high_risk_tlds THEN 300 ELSE 0)
        /\ SumOfWeights(FactorNames) = 100
        /\ DOMAIN risk[1].risk_scores = Range(FactorNames)

\* a score every factor of which contributes, some below their clamps
C3_Witness ==
    /\ risk # None
    /\ \A f \in Range(FactorNames) : risk[1].risk_scores[f] > 0
    /\ risk[1].risk_scores["length"] < ScoreUnit
    /\ risk[1].risk_scores["path_depth"] < ScoreUnit
    /\ risk[1].risk_scores["suspicious_keywords"] < ScoreUnit

(***************************************************************************)
(* Properties of the feature extractor (checked under SpecCore)            *)
(***************************************************************************)
\* C5: extract_features never raises: for every input string it returns a
\* feature vector.
C5_ExtractNeverRaises ==
    features # None => ~ features[1].raised /\ Len(features[1].features) = 5

\* the pieces of a string between separators, four (or eight) in a row of
\* which make an IP literal: the first has only to end as one of its groups
\* does and the last to start as one
LegacyOctet(t) ==
    /\ Len(t) \in 1..3
    /\ AllIn(t, Digits)
    /\ Len(t) = 3 => \/ t[1] \in {"0", "1"}
                     \/ t[1] = "2" /\ DigitVal(t[2]) <= 4
                     \/ t[1] = "2" /\ t[2] = "5" /\ DigitVal(t[3]) <= 5

HexOctet(t) ==
    /\ Len(t) \in 3..4
    /\ t[1] = "0"
    /\ t[2] = "x"
    /\ AllIn(From(t, 2), HexDigits)

HexGroup(t) == Len(t) \in 1..4 /\ AllIn(t, HexDigits)

EndsWithHexOctet(t) ==
    \E m \in 3..4 : Len(t) >= m /\ HexOctet(SubSeq(t, Len(t) - m + 1, Len(t)))

StartsWithHexOctet(t) == Len(t) >= 3 /\ HexOctet(SubSeq(t, 1, 3))

DottedQuadIn(parts) ==
    \E k \in 1..(Len(parts) - 3) :
        /\ parts[k] # <<>> /\ parts[k][Len(parts[k])] \in Digits
        /\ LegacyOctet(parts[k + 1])
        /\ LegacyOctet(parts[k + 2])
        /\ parts[k + 3] # <<>> /\ parts[k + 3][1] \in Digits

HexQuadIn(parts) ==
    \E k \in 1..(Len(parts) - 3) :
        /\ EndsWithHexOctet(parts[k])
        /\ HexOctet(parts[k + 1])
        /\ HexOctet(parts[k + 2])
        /\ StartsWithHexOctet(parts[k + 3])

ColonHexIn(parts) ==
    \E k \in 1..(Len(parts) - 7) :
        /\ parts[k] # <<>> /\ parts[k][Len(parts[k])] \in HexDigits
        /\ \A j \in 1..6 : HexGroup(parts[k + j])
        /\ parts[k + 7] # <<>> /\ parts[k + 7][1] \in HexDigits

\* an IP literal of one of the three forms somewhere in the text
IpLiteralIn(text) ==
    \/ DottedQuadIn(Split(text, "."))
    \/ HexQuadIn(Split(text, "."))
    \/ ColonHexIn(Split(text, ":"))

\* the whole of the host is an IP literal of one of the three forms (an
\* IPv6 host stands in brackets)
UnBracket(host) ==
    IF Len(host) >= 2 /\ host[1] = "[" /\ host[Len(host)] = "]"
    THEN SubSeq(host, 2, Len(host) - 1) ELSE host

LegacyQuad(parts) == Len(parts) = 4 /\ \A k \in 1..4 : LegacyOctet(parts[k])

HexQuad(parts) == Len(parts) = 4 /\ \A k \in 1..4 : HexOctet(parts[k])

HostIsIpLiteral(host) ==
    \/ LegacyQuad(Split(host, "."))
    \/ HexQuad(Split(host, "."))
    \/ Len(Split(UnBracket(host), ":")) = 8
         /\ \A k \in 1..8 : HexGroup(Split(UnBracket(host), ":")[k])

\* C9, as claimed: ip_literal_flag is -1 exactly when the host of the URL is
\* an IPv4 dotted quad, an IPv4 hex-octet form or a full IPv6 colon-hex
\* form, and +1 otherwise.
C9_FlagIffHostIsIp ==
    (features # None /\ ~ features[1].raised) =>
        /\ features[1].features[5] \in {-1, 1}
        /\ features[1].features[5] = -1 <=> HostIsIpLiteral(urlparse(url).netloc)

\* C9, amended: ip_literal_flag is -1 exactly when the URL string holds one
\* of the three forms anywhere (host, path or query), and +1 otherwise.
C9_FlagIffIpAnywhere ==
    (features # None /\ ~ features[1].raised) =>
        /\ features[1].features[5] \in {-1, 1}
        /\ features[1].features[5] = -1 <=> IpLiteralIn(url)

\* a URL whose host is a domain name and whose query holds a dotted quad,
\* flagged -1
C9_Witness ==
    /\ features # None
    /\ ~ features[1].raised
    /\ IsDomain(urlparse(url).netloc)
    /\ DottedQuadIn(Split(urlparse(url).query, "."))
    /\ features[1].features[5] = -1

(***************************************************************************)
(* Properties of the insight generator (checked under SpecCore)            *)
(***************************************************************************)
\* the insights a bucket must hold: those of its rules whose condition holds
Fired(rules) == {r[2] : r \in {q \in rules : q[1]}}

\* a list holds exactly the members of a set, each once
ExactlyOnce(list, set) == Range(list) = set /\ Len(list) = Cardinality(set)

\* C10: get_security_insights emits exactly the insights of the eight rules
\* whose condition holds, each once: high for url_length > 75,
\* special_chars_count > 10, a high-risk tld, has_ip_address; moderate for
\* subdomain_depth > 3 and for found keywords (listing them); positive for
\* uses_https and for not excessive_dots; the low-risk bucket stays empty.
C10_ExactlyTheFiredRules ==
    insights # None =>
        /\ ExactlyOnce(insights[1].high_risk_factors,
              Fired({ <<analysis[1].url_length > 75, <<"long_url", <<>> >> >>,
                      <<analysis[1].special_chars_count > 10, <<"special_chars", <<>> >> >>,
                      <<analysis[1].tld \in NewAnalyzer.high_risk_tlds,
                        <<"high_risk_tld", analysis[1].tld>> >>,
                      <<analysis[1].has_ip_address, <<"ip_address", <<>> >> >> }))
        /\ ExactlyOnce(insights[1].moderate_risk_factors,
              Fired({ <<analysis[1].subdomain_depth > 3, <<"subdomains", <<>> >> >>,
                      <<analysis[1].found_keywords # <<>>,
                        <<"keywords", analysis[1].found_keywords>> >> }))
        /\ ExactlyOnce(insights[1].security_positives,
              Fired({ <<analysis[1].uses_https, <<"https", <<>> >> >>,
                      <<~ analysis[1].excessive_dots, <<"normal_dots", <<>> >> >> }))
        /\ insights[1].low_risk_factors = <<>>

\* insights of a URL that fires three high-risk rules and both moderate
\* ones, and neither positive one
C10_Witness ==
    /\ insights # None
    /\ Len(insights[1].high_risk_factors) >= 3
    /\ Len(insights[1].moderate_risk_factors) = 2
    /\ insights[1].security_positives = <<>>

(***************************************************************************)
(* Properties of the scanner page and the history (checked under Spec)     *)
(***************************************************************************)
\* the classifier was not there for the request: no model was loaded, or
\* model.predict was called and raised
ClassifierUnavailable ==
    model = "none" \/ calls = <<"extract_features", "predict">>

\* C4: when the classifier is unavailable, a scan request for a valid URL
\* still produces and shows the heuristic composite score and the insights,
\* and the ML probability is reported as absent.
C4_HeuristicWithoutClassifier ==
    (clock > 0 /\ validators_url(url) /\ ClassifierUnavailable) =>
        /\ risk # None
        /\ shown.risk_score # None
        /\ shown.insights # None
        /\ shown.ml_confidence = None

\* the rows of the table for one URL
RowsOf(u) == {r \in url_scans : r.url = u}

\* C6: after any sequence of add_scan calls the table holds exactly one row
\* for each URL that was scanned, carrying the prediction of the latest
\* add_scan for that URL, and no row for any other URL.
C6_OneRowPerUrlLastWins ==
    /\ \A r \in url_scans : r.url \in AppURLs
    /\ \A u \in AppURLs :
          IF scanned[u] = None
          THEN RowsOf(u) = {}
          ELSE /\ Cardinality(RowsOf(u)) = 1
               /\ \A r \in RowsOf(u) : r.prediction = scanned[u][1]

\* a URL scanned again with another prediction, after a scan of another URL
C6_Witness ==
    /\ clock = 3
    /\ assessed[url] # None
    /\ assessed[url][1].times = 2
    /\ Cardinality(url_scans) = 2
    /\ \E r \in RowsOf(url) : r.timestamp = 3 /\ r.prediction = 90
    /\ \E r \in url_scans : r.url # url /\ r.timestamp = 2

C8_InvalidUrlNotScored ==
    [][(clock' = clock + 1 /\ ~ validators_url(url')) =>
          /\ calls' = <<>>
          /\ features' = None
          /\ prediction' = None
          /\ analysis' = None
          /\ risk' = None
          /\ insights' = None
          /\ url_scans' = url_scans
          /\ shown' = [NothingShown EXCEPT !.error = "Please enter a valid URL"]]_vars

\* an invalid URL entered with the classifier loaded and a history present
C8_Witness ==
    /\ clock > 1
    /\ model = "loaded"
    /\ ~ validators_url(url)
    /\ url_scans # {}
    /\ calls = <<>>

\* C11: the heuristic composite score and the ML probability are never
\* fused: the factor scores and the composite score shown for a URL are
\* those of the URL alone whatever probability the classifier returns, and
\* the probability shown and stored is the classifier's output as it is.
C11_NeverFused ==
    insights # None =>
        /\ predicted # None
        /\ ~ predicted[1].raised
        /\ prediction = Some(predicted[1].p)
        /\ shown.ml_confidence = Some(predicted[1].p)
        /\ \A r \in url_scans : r.url = url => r.prediction = predicted[1].p
        /\ risk = Some(calculate_risk_score(NewAnalyzer,
                           analyze_url_structure(NewAnalyzer, url)))
        /\ shown.risk_score = Some(risk[1].total_risk)

\* a low risk score shown next to a high probability, for a URL that had
\* been shown with another probability before
C11_Witness ==
    /\ insights # None
    /\ assessed[url] # None
    /\ assessed[url][1].times = 2
    /\ shown.ml_confidence = Some(90)
    /\ shown.pred_color = "red"
    /\ shown.risk_color = "green"
    /\ \E r \in url_scans : r.url = url /\ r.prediction = 90

\* C14: every history row written by add_scan has is_malicious true exactly
\* when its stored probability is at least 0.5; exactly 0.5 is malicious.
C14_MaliciousIffAtLeastHalf ==
    \A r \in url_scans : r.is_malicious <=> (r.prediction >= 50)

\* a row with the probability 0.5, malicious, next to a benign one
C14_Witness ==
    /\ \E r \in url_scans : r.prediction = 50 /\ r.is_malicious
    /\ \E r \in url_scans : r.prediction = 30 /\ ~ r.is_malicious

(***************************************************************************)
(* Degradation on URLs that do not parse (checked under SpecCore)          *)
(***************************************************************************)
\* C12: a failure to parse a URL component during structural analysis does
\* not abort the assessment: analyze_url_structure returns an analysis, the
\* affected attributes at their defaults, for every URL.
C12_ParseFailureDegrades ==
    analysis # None => ~ analysis[1].raised

\* no host comes out of the URL: urlparse raises, or gives an empty netloc
HostUnparsed(u, p) == p.raised \/ p.netloc = <<>>

\* C13: for a URL whose host cannot be parsed, extract_features returns the
\* all-default vector (hostname_length, path_length, first_directory_length,
\* dot_count, ip_literal_flag) = (0, 0, 0, 0, 1).
C13_UnparsedHostGivesDefaults ==
    (features # None /\ HostUnparsed(url, urlparse(url))) =>
        /\ ~ features[1].raised
        /\ features[1].features = <<0, 0, 0, 0, 1>>

(***************************************************************************)
(* The worked examples, for every URL of their kind (checked under         *)
(* SpecCore)                                                               *)
(***************************************************************************)
login == <<"l", "o", "g", "i", "n">>

\* the URL's host is a dotted-quad IPv4 address and the URL contains 'login'
IpHostWithLogin(u, p) ==
    /\ ~ p.raised
    /\ LegacyQuad(Split(p.netloc, "."))
    /\ Contains(u, login)

\* no keyword of the list other than 'login' occurs in the URL
OnlyLogin(u) ==
    \A kw \in Range(NewAnalyzer.suspicious_keywords) \ {login} : ~ Contains(Lower(u), kw)

NumericQuadIn(parts) ==
    \E k \in 1..(Len(parts) - 3) :
        /\ parts[k] # <<>> /\ parts[k][Len(parts[k])] \in Digits
        /\ parts[k + 1] # <<>> /\ AllIn(parts[k + 1], Digits)
        /\ parts[k + 2] # <<>> /\ AllIn(parts[k + 2], Digits)
        /\ parts[k + 3] # <<>> /\ parts[k + 3][1] \in Digits

\* the characters of a URL that are no letters, digits, dots, slashes or
\* hyphens, counted
SpecialCount(u) ==
    Cardinality({i \in DOMAIN u : u[i] \notin Letters \cup Digits \cup {".", "/", "-"}})

\* a short https URL on a TLD that is not high-risk, with no dotted quad of
\* numbers, no suspicious keyword and at most 10 special characters
ShortPlainHttps(u, suffix) ==
    /\ Len(u) <= 75
    /\ Len(u) >= 8
    /\ SubSeq(u, 1, 8) = <<"h","t","t","p","s",":","/","/">>
    /\ suffix # <<>>
    /\ suffix \notin NewAnalyzer.high_risk_tlds
    /\ ~ NumericQuadIn(Split(u, "."))
    /\ \A kw \in Range(NewAnalyzer.suspicious_keywords) : ~ Contains(Lower(u), kw)
    /\ SpecialCount(u) <= 10

\* C17: a short https URL on a non-high-risk TLD with no IP address (no
\* dotted quad of numbers anywhere in it), no suspicious keyword and at
\* most 10 special characters yields uses_https = true, has_ip_address =
\* false, tld_risk = 0.0, an empty high-risk list and the 'Uses HTTPS'
\* positive insight.
C17_ShortPlainHttps ==
    ShortPlainHttps(url, tldextract(url).suffix) =>
        /\ analysis # None =>
              /\ ~ analysis[1].raised
              /\ analysis[1].uses_https
              /\ ~ analysis[1].has_ip_address
        /\ risk # None => risk[1].risk_scores["tld_risk"] = 0
        /\ insights # None =>
              /\ insights[1].high_risk_factors = <<>>
              /\ <<"https", <<>> >> \in Range(insights[1].security_positives)

\* https://www.google.com, through the analyzer
C17_Witness ==
    /\ url = <<"h","t","t","p","s",":","/","/","w","w","w",".","g","o","o","g","l","e",".","c","o","m">>
    /\ insights # None
    /\ risk[1].risk_scores["tld_risk"] = 0
    /\ Len(insights[1].security_positives) = 2

\* C18: for every URL of more than 75 characters whose TLD is in the
\* high-risk set, the length factor is 1.0 and tld_risk is 1.0, each
\* contributing 0.15, so that the composite score is at least 0.30.
C18_LongUrlOnRiskyTld ==
    (risk # None /\ Len(url) > 75
                 /\ tldextract(url).suffix \in NewAnalyzer.high_risk_tlds) =>
        /\ risk[1].risk_scores["length"] = ScoreUnit
        /\ risk[1].risk_scores["tld_risk"] = ScoreUnit
        /\ analyzer.risk_factors["length"].weight * risk[1].risk_scores["length"]
              = 15 * ScoreUnit
        /\ analyzer.risk_factors["tld_risk"].weight * risk[1].risk_scores["tld_risk"]
              = 15 * ScoreUnit
        /\ risk[1].total_risk >= 30 * ScoreUnit

\* an 80-character URL on xyz, scored below 1.0
C18_Witness ==
    /\ risk # None
    /\ Len(url) = 80
    /\ analysis[1].tld = <<"x", "y", "z">>
    /\ risk[1].total_risk >= 30 * ScoreUnit
    /\ risk[1].total_risk < FullScore

(***************************************************************************)
(* Requests side by side (checked under SpecConcurrent)                    *)
(***************************************************************************)
\* what request r holds is what its URL gives when assessed alone, a being
\* the analysis of its URL alone
RequestAsAlone(r, a) ==
    /\ a.raised => r.analysis = None /\ r.pc \in {"analyze", "raised"}
    /\ r.analysis # None => r.analysis[1] = a
    /\ r.risk # None => r.risk[1] = calculate_risk_score(NewAnalyzer, a)
    /\ r.insights # None =>
          r.insights[1] = get_security_insights(NewAnalyzer, a,
                              calculate_risk_score(NewAnalyzer, a).risk_scores)
    /\ r.pc = "done" => r.insights # None
    /\ r.pc = "insights" => r.risk # None
    /\ r.pc = "score" => r.analysis # None

\* C15: structural analysis, scoring and insight generation are safe to run
\* concurrently: however the operations of two requests interleave, each
\* request gets the result it gets when run alone, and no operation
\* modifies the shared configuration.
C15_ConcurrentAsAlone ==
    /\ analyzer = NewAnalyzer
    /\ \A i \in DOMAIN requests :
          RequestAsAlone(requests[i], analyze_url_structure(NewAnalyzer, requests[i].url))

\* two requests for different URLs, both between their scoring and their
\* insights, with different scores
C15_Witness ==
    /\ requests # <<>>
    /\ requests[1].pc = "insights"
    /\ requests[2].pc = "insights"
    /\ requests[1].url # requests[2].url
    /\ requests[1].risk[1].total_risk # requests[2].risk[1].total_risk

(***************************************************************************)
(* Properties of the scan scheduler (checked under SpecSched)              *)
(***************************************************************************)
\* the schedulers whose loop thread is polling
LoopThreads == {i \in DOMAIN schedulers : schedulers[i].pc # "none"}

\* C19: at any time at most one scheduler loop thread is polling the
\* scheduled_scans table, however often the schedule page is rendered.
C19_SingleLoopThread == Cardinality(LoopThreads) <= 1

\* C20: each row of scheduled_scans is executed against ZAP at most once:
\* its scan calls are issued by at most one run_scan invocation, also when
\* the loops of several ScanScheduler instances poll the same table.
C20_ScanExecutedOnce ==
    \A e, f \in zap_log : e.scan_id = f.scan_id => e.by = f.by

(***************************************************************************)
(* The subdomain depth (checked under SpecCore)                            *)
(***************************************************************************)
\* C26: for a URL whose host has no subdomain part analyze_url_structure
\* reports subdomain_depth = 1, not 0; so subdomain_depth >= 1 for every
\* URL, and the subdomain_depth factor is never below 1/3.
C26_SubdomainDepthAtLeastOne ==
    /\ (analysis # None /\ ~ analysis[1].raised) =>
          /\ analysis[1].subdomain_depth >= 1
          /\ tldextract(url).subdomain = <<>> => analysis[1].subdomain_depth = 1
    /\ risk # None => 3 * risk[1].risk_scores["subdomain_depth"] >= ScoreUnit

\* a.xyz, scored: no subdomain, depth 1, factor 1/3
C26_Witness ==
    /\ url = <<"h","t","t","p",":","/","/","a",".","x","y","z">>
    /\ risk # None
    /\ tldextract(url).subdomain = <<>>
    /\ analysis[1].subdomain_depth = 1
    /\ 3 * risk[1].risk_scores["subdomain_depth"] = ScoreUnit

(***************************************************************************)
(* The stored and the shown verdict (checked under Spec)                   *)
(***************************************************************************)
\* C30: for every probability the classifier can return, the row of the
\* scan is stored as malicious exactly when the ML confidence of the scan
\* is shown as malicious (red).
C30_StoredVerdictIsShownVerdict ==
    shown.ml_confidence # None =>
        \A r \in url_scans : r.url = url => (r.is_malicious <=> shown.pred_color = "red")

(***************************************************************************)
(* Further properties of the scan scheduler (checked under SpecSched, the  *)
(* last under SpecSchedFair)                                               *)
(***************************************************************************)
\* the scans scheduler i has selected in its pass and not finished
InPass(i) ==
    Range(schedulers[i].pending) \cup ({schedulers[i].scan_id} \ {0})

\* C21: the scheduler fires only overdue scans: a scan is moved to
\* 'running' and sent to ZAP only if its schedule_time is at most the time
\* of the poll that selected it; no scan starts before its schedule_time.
C21_OnlyOverdueScansFire ==
    /\ \A k \in DOMAIN scheduled_scans :
          scheduled_scans[k].status # "scheduled" =>
              scheduled_scans[k].schedule_time <= datetime_now
    /\ \A e \in zap_log : scheduled_scans[e.scan_id].schedule_time <= datetime_now
    /\ \A i \in DOMAIN schedulers : \A k \in InPass(i) :
          /\ scheduled_scans[k].schedule_time <= schedulers[i].current_time
          /\ schedulers[i].current_time <= datetime_now

\* a pass has run an overdue scan and left alone an older row that is not
\* due yet
C21_Witness ==
    \E j, k \in DOMAIN scheduled_scans :
        /\ k < j
        /\ scheduled_scans[k].status = "scheduled"
        /\ scheduled_scans[k].schedule_time > datetime_now
        /\ scheduled_scans[j].status = "completed"
        /\ \E e \in zap_log : e.scan_id = j

\* C22: scan failures are isolated per scan: when connecting to ZAP or a
\* ZAP scan call fails inside run_scan, the status of that scan becomes
\* 'failed', the exception does not leave run_scan, the other scans
\* selected in the same pass are still to be run, and the loop goes on.
C22_FailureIsolatedPerScan ==
    [][\A i \in SchedulerIds, outcome \in ZapOutcomes :
          ( /\ RunScanEnd(i, outcome)
            /\ \/ schedulers[i].zap = "none"
               \/ outcome = "spider_raises"
               \/ schedulers[i].scan_type = "full" /\ outcome = "ascan_raises" ) =>
              /\ scheduled_scans'[schedulers[i].scan_id].status = "failed"
              /\ \A k \in DOMAIN scheduled_scans :
                    k # schedulers[i].scan_id => scheduled_scans'[k] = scheduled_scans[k]
              /\ schedulers'[i].is_running
              /\ schedulers'[i].pending = schedulers[i].pending
              /\ schedulers'[i].pc = IF schedulers[i].pending # <<>> THEN "for" ELSE "select"
              /\ \A j \in DOMAIN schedulers : j # i => schedulers'[j] = schedulers[j]]_vars

\* the first scan of a pass has failed after its call was sent, and the
\* second scan of the same pass, still 'scheduled', is the next one of the
\* loop
C22_Witness ==
    \E i \in DOMAIN schedulers :
        /\ Len(scheduled_scans) = 2
        /\ scheduled_scans[1].status = "failed"
        /\ scheduled_scans[2].status = "scheduled"
        /\ schedulers[i].pc = "for"
        /\ schedulers[i].pending = <<2>>
        /\ \E e \in zap_log : e.scan_id = 1 /\ e.by = i
        /\ \A e \in zap_log : e.by = i

\* C23: the status of a scheduled scan only moves forward, scheduled ->
\* running -> completed or failed: once it is 'completed' or 'failed' it
\* never changes again.
C23_StatusOnlyMovesForward ==
    [][\A k \in DOMAIN scheduled_scans :
          /\ scheduled_scans[k].status \in {"completed", "failed"} =>
                scheduled_scans'[k].status = scheduled_scans[k].status
          /\ scheduled_scans[k].status = "running" =>
                scheduled_scans'[k].status # "scheduled"]_vars

\* C24: once the scheduler has been started and its thread runs on, every
\* row with status 'scheduled' whose schedule_time has passed eventually
\* reaches 'completed' or 'failed', and no row stays 'scheduled' or
\* 'running' for ever.
C24_OverdueScansFinish ==
    \A k \in 1..MaxScans :
        (k \in DOMAIN scheduled_scans /\ scheduled_scans[k].schedule_time <= datetime_now)
            ~> (k \in DOMAIN scheduled_scans
                   /\ scheduled_scans[k].status \in {"completed", "failed"})

\* a row that became due while it waited, finished
C24_Witness ==
    \E k \in DOMAIN scheduled_scans :
        /\ scheduled_scans[k].schedule_time = 1
        /\ datetime_now = 1
        /\ scheduled_scans[k].status = "completed"
        /\ \A i \in DOMAIN schedulers : schedulers[i].pc = "select"

(***************************************************************************)
(* ZAPScanner.start_scan (src/zap/zap_scanner.py): one call at a time,     *)
(* against a ZAP daemon whose spiders crawl on their own                   *)
(***************************************************************************)
\* how many times start_scan is called
MaxStartScans == 2

ScanModes == {"Quick Scan", "Full Scan", "API Scan"}

ScanPolicies == {"Default", "Quick"}

\* the ids ZAP may have given to spider scans: one that was there before,
\* and one for each call
SpiderIds == 1..(MaxStartScans + 1)

\* the scanner page and the risk scorer are not in use
NoPage ==
    /\ url = <<>>
    /\ features = None
    /\ prediction = None
    /\ predicted = None
    /\ analysis = None
    /\ risk = None
    /\ insights = None
    /\ shown = NothingShown
    /\ calls = <<>>
    /\ model = "loaded"
    /\ url_scans = {}
    /\ clock = 0
    /\ analyzer = NewAnalyzer
    /\ assessed = [u \in AppURLs |-> None]
    /\ scanned = [u \in AppURLs |-> None]

\* except Exception: log the error, return None
ReturnNone(self) ==
    [self EXCEPT !.pc = "done", !.scan_id = None, !.raised = TRUE]

\* return scan_id
ReturnScanId(self, scan_id) ==
    [self EXCEPT !.pc = "done", !.scan_id = Some(scan_id)]

\* start_scan up to its first scan call: zap.urlopen(url), which returns or
\* raises, then the branch of the scan mode
start_scan(self, scan_mode, scan_policy, opened) ==
    IF ~ opened
    THEN ReturnNone([self EXCEPT !.call = @ + 1, !.scan_mode = scan_mode,
                                 !.scan_policy = scan_policy, !.spider_scan_id = 0,
                                 !.raised = FALSE])
    ELSE [self EXCEPT !.call = @ + 1, !.scan_mode = scan_mode,
                      !.scan_policy = scan_policy, !.spider_scan_id = 0,
                      !.raised = FALSE, !.scan_id = None,
                      !.pc = IF scan_mode = "API Scan" THEN "ascan" ELSE "spider"]

StartScan(scan_mode, scan_policy, opened) ==
    /\ zap_scanner.pc \in {"idle", "done"}
    /\ zap_scanner.call < MaxStartScans
    /\ zap_scanner' = start_scan(zap_scanner, scan_mode, scan_policy, opened)
    /\ UNCHANGED <<zap_server, analyzer, pageVars, concVars, schedVars, authVars>>

\* a mutation of SpiderStatus: the progress of the first spider scan of
\* the daemon
SpiderStatusOfFirst(server, spider_scan_id) == server.spiders[1].progress

\* zap.spider.status(spider_scan_id): the progress of that spider scan
SpiderStatus(server, spider_scan_id) == server.spiders[spider_scan_id].progress

\* the daemon with one more spider scan, started by the call at hand
SpiderStarted(server, self) ==
    [server EXCEPT !.spiders = Append(@, [call |-> self.call, progress |-> 0])]

\* the daemon with one more active scan, started by the call at hand
AscanStarted(server, self) ==
    [server EXCEPT !.ascans = Append(@, [call |-> self.call, scan_mode |-> self.scan_mode,
                                         scanpolicyname |-> self.scan_policy])]

\* zap.spider.scan(url=url), for a full and for a quick scan: it starts a
\* spider scan and gives its id, or raises; the quick scan returns the id
SpiderScan(started) ==
    /\ zap_scanner.pc = "spider"
    /\ IF ~ started
       THEN /\ zap_scanner' = ReturnNone(zap_scanner)
            /\ UNCHANGED zap_server
       ELSE /\ zap_server' = SpiderStarted(zap_server, zap_scanner)
            /\ zap_scanner' =
                  IF zap_scanner.scan_mode = "Quick Scan"
                  THEN ReturnScanId(zap_scanner, Len(zap_server'.spiders))
                  ELSE [zap_scanner EXCEPT !.spider_scan_id = Len(zap_server'.spiders),
                                           !.pc = "poll"]
    /\ UNCHANGED <<analyzer, pageVars, concVars, schedVars, authVars>>

\* one turn of the loop that waits for the spider: the status is asked; the
\* call raises, or the loop sleeps, or at 100 it is left
WaitForSpider(replied) ==
    /\ zap_scanner.pc = "poll"
    /\ zap_scanner' =
          IF ~ replied THEN ReturnNone(zap_scanner)
          ELSE IF SpiderStatus(zap_server, zap_scanner.spider_scan_id) < 100
               THEN zap_scanner
               ELSE [zap_scanner EXCEPT !.pc = "ascan"]
    /\ UNCHANGED <<zap_server, analyzer, pageVars, concVars, schedVars, authVars>>

\* zap.ascan.scan(url=url, scanpolicyname=scan_policy), for a full and for
\* an API scan: it starts an active scan and gives its id, or raises
AscanScan(started) ==
    /\ zap_scanner.pc = "ascan"
    /\ IF ~ started
       THEN /\ zap_scanner' = ReturnNone(zap_scanner)
            /\ UNCHANGED zap_server
       ELSE /\ zap_server' = AscanStarted(zap_server, zap_scanner)
            /\ zap_scanner' = ReturnScanId(zap_scanner, Len(zap_server'.ascans))
    /\ UNCHANGED <<analyzer, pageVars, concVars, schedVars, authVars>>

\* the daemon: a spider scan crawls on
SpiderCrawls(k) ==
    /\ k \in DOMAIN zap_server.spiders
    /\ zap_server.spiders[k].progress < 100
    /\ zap_server' = [zap_server EXCEPT !.spiders[k].progress = @ + 50]
    /\ UNCHANGED <<zap_scanner, analyzer, pageVars, concVars, schedVars, authVars>>

\* the daemon is up, with no scan or with a spider scan of earlier use,
\* finished or not
InitZap ==
    /\ NoPage
    /\ NoRequests
    /\ NoScheduler
    /\ NoAuth
    /\ zap_server \in {[spiders |-> sp, ascans |-> <<>>] :
                          sp \in {<<>>, <<[call |-> 0, progress |-> 0]>>,
                                  <<[call |-> 0, progress |-> 100]>>}}
    /\ zap_scanner = [pc |-> "idle", scan_mode |-> "", scan_policy |-> "",
                      spider_scan_id |-> 0, scan_id |-> None, raised |-> FALSE, call |-> 0]

NextZap ==
    \/ \E scan_mode \in ScanModes, scan_policy \in ScanPolicies, opened \in BOOLEAN :
          StartScan(scan_mode, scan_policy, opened)
    \/ \E started \in BOOLEAN : SpiderScan(started)
    \/ \E replied \in BOOLEAN : WaitForSpider(replied)
    \/ \E started \in BOOLEAN : AscanScan(started)
    \/ \E k \in SpiderIds : SpiderCrawls(k)

SpecZap == InitZap /\ [][NextZap]_vars

\* C25: in ZAPScanner.start_scan with scan_mode 'Full Scan' the active scan
\* is started only after the spider scan that the same call launched has
\* reported status 100; and if any ZAP call raises, start_scan returns None
\* and has started no active scan.
C25_ActiveScanAfterSpider ==
    /\ \A a \in Range(zap_server.ascans) :
          a.scan_mode = "Full Scan" =>
              \E k \in DOMAIN zap_server.spiders :
                  /\ zap_server.spiders[k].call = a.call
                  /\ zap_server.spiders[k].progress = 100
    /\ (zap_scanner.pc = "done" /\ zap_scanner.raised) =>
          /\ zap_scanner.scan_id = None
          /\ \A a \in Range(zap_server.ascans) : a.call # zap_scanner.call

\* the second call, a full scan, has started its active scan and returned
\* its id, on a daemon that held an older spider scan
C25_Witness ==
    /\ zap_scanner.pc = "done"
    /\ zap_scanner.scan_mode = "Full Scan"
    /\ zap_scanner.scan_id # None
    /\ zap_scanner.call = 2
    /\ Len(zap_server.spiders) = 2
    /\ zap_server.spiders[1].call = 0
    /\ Len(zap_server.ascans) = 1

(***************************************************************************)
(* Accounts and the session (src/app.py, src/Authentication, src/navbar.py,*)
(* src/userAdmin/profile.py): one browser session                          *)
(***************************************************************************)
Usernames == {"alice", "bob"}

\* what is typed as a password: too short, and two that are long enough
Passwords == {Rep("a", 7), Rep("a", 8), Rep("b", 9)}

\* what is typed as an email: a well-formed one, and one with no @
Emails == {<<"a", "@", "b", ".", "c">>, <<"a", ".", "b">>}

\* what bcrypt.gensalt() gives
Salts == {"s1"}

\* the dictionaries passed as updates: any of these keys, each with a new
\* value
UpdateValues ==
    [full_name |-> "Al", profile_picture |-> Some("p.png"), role |-> "admin"]

Updates == {[k \in K |-> UpdateValues[k]] : K \in SUBSET DOMAIN UpdateValues}

\* a dictionary with one more key, or with that key overwritten
Put(d, k, v) == (k :> v) @@ d

\* what a call returned, with the call and its arguments
Returned(call, username, password, new_password, updates, ok, message) ==
    [call |-> call, username |-> username, password |-> password,
     new_password |-> new_password, updates |-> updates, result |-> <<ok, message>>]

\* bcrypt.hashpw(password, salt): the salt, and a digest of salt and
\* password that no other salt and password give
hashpw(password, salt) == [salt |-> salt, digest |-> <<salt, password>>]

\* re.match(r"[^@]+@[^@]+\.[^@]+", email)
EmailMatches(email) ==
    \E a \in 2..Len(email), d \in 3..Len(email) :
        /\ a + 1 < d
        /\ d < Len(email)
        /\ email[a] = "@"
        /\ \A x \in 1..(a - 1) : email[x] # "@"
        /\ email[d] = "."
        /\ \A x \in (a + 1)..(d - 1) : email[x] # "@"
        /\ email[d + 1] # "@"

\* DatabaseOperations.add_user: the table after it, and what it returns
add_user(table, username, password, email, salt) ==
    IF username = "" \/ password = <<>> \/ email = <<>>
    THEN [users |-> table, ok |-> FALSE, message |-> "All fields are required."]
    ELSE IF ~ EmailMatches(email)
    THEN [users |-> table, ok |-> FALSE, message |-> "Invalid email format."]
    ELSE IF Len(password) < 8
    THEN [users |-> table, ok |-> FALSE,
          message |-> "Password must be at least 8 characters long."]
    ELSE IF username \in DOMAIN table
    THEN [users |-> table, ok |-> FALSE, message |-> "Username already exists."]
    ELSE [users |-> Put(table, username,
                        [password |-> hashpw(password, salt), email |-> email,
                         role |-> "user", full_name |-> "", bio |-> "",
                         profile_picture |-> None]),
          ok |-> TRUE, message |-> "Account created successfully!"]

\* DatabaseOperations.verify_user: there is a row of that name, and
\* bcrypt.checkpw hashes the password with the salt of the stored hash and
\* finds the stored hash
verify_user(table, username, password) ==
    /\ username \in DOMAIN table
    /\ hashpw(password, table[username].password.salt) = table[username].password

\* a mutation of allowed_fields
allowed_fields_and_role == {"full_name", "bio", "profile_picture", "role"}

allowed_fields == {"full_name", "bio", "profile_picture"}

\* DatabaseOperations.update_user_profile; committed says that the
\* statement did not raise
update_user_profile(table, username, updates, committed) ==
    IF DOMAIN updates \cap allowed_fields = {}
    THEN [users |-> table, ok |-> FALSE, message |-> "No valid fields to update"]
    ELSE IF ~ committed
    THEN [users |-> table, ok |-> FALSE, message |-> "Error updating profile"]
    ELSE [users |-> [u \in DOMAIN table |->
                        IF u # username THEN table[u]
                        ELSE [f \in DOMAIN table[u] |->
                                 IF f \in DOMAIN updates \cap allowed_fields
                                 THEN updates[f] ELSE table[u][f]]],
          ok |-> TRUE, message |-> "Profile updated successfully!"]

\* a mutation of change_user_password: the current password is not asked
\* for
change_user_password_unverified(table, username, current_password, new_password, salt, committed) ==
    IF username \notin DOMAIN table
    THEN [users |-> table, ok |-> FALSE, message |-> "Invalid current password."]
    ELSE [users |-> [table EXCEPT ![username].password = hashpw(new_password, salt)],
          ok |-> TRUE, message |-> "Password changed successfully!"]

\* DatabaseOperations.change_user_password
change_user_password(table, username, current_password, new_password, salt, committed) ==
    IF ~ verify_user(table, username, current_password)
    THEN [users |-> table, ok |-> FALSE, message |-> "Invalid current password."]
    ELSE IF Len(new_password) < 8
    THEN [users |-> table, ok |-> FALSE,
          message |-> "Password must be at least 8 characters long."]
    ELSE IF ~ committed
    THEN [users |-> table, ok |-> FALSE, message |-> "Error changing password"]
    ELSE [users |-> [table EXCEPT ![username].password = hashpw(new_password, salt)],
          ok |-> TRUE, message |-> "Password changed successfully!"]

\* DatabaseOperations.delete_user
delete_user(table, username, password, committed) ==
    IF ~ verify_user(table, username, password)
    THEN [users |-> table, ok |-> FALSE, message |-> "Invalid credentials."]
    ELSE IF ~ committed
    THEN [users |-> table, ok |-> FALSE, message |-> "Error deleting account"]
    ELSE [users |-> [u \in DOMAIN table \ {username} |-> table[u]],
          ok |-> TRUE, message |-> "Account deleted successfully!"]

\* app.py, the top of a run: the keys the session lacks get their defaults
app(session) ==
    session @@ ("authenticated" :> FALSE) @@ ("page" :> "login")
            @@ ("current_view" :> "home")

\* a mutation of main_routing: the main application whatever the flag
main_routing_open(session) == "main"

\* app.py, the main routing logic: what a run renders
main_routing(session) ==
    IF session["authenticated"] THEN "main"
    ELSE IF session["page"] = "login" THEN "login"
    ELSE IF session["page"] = "register" THEN "register"
    ELSE "none"

\* st.rerun(): app.py runs again on the session as the handler left it
Rerun(session) ==
    /\ session_state' = app(session)
    /\ rendered' = main_routing(app(session))

\* login_page, the form submitted
LoginSubmit(username, password) ==
    /\ rendered = "login"
    /\ returned' = Returned("verify_user", username, password, <<>>, <<>>,
                            verify_user(users, username, password), "")
    /\ IF verify_user(users, username, password)
       THEN Rerun(Put(Put(session_state, "authenticated", TRUE), "username", username))
       ELSE UNCHANGED <<session_state, rendered>>
    /\ UNCHANGED <<users, analyzer, pageVars, concVars, schedVars, zapVars>>

\* the buttons 'Create New Account' of login_page and 'Back to Login' of
\* register_page
PageButton(page) ==
    /\ \/ rendered = "login" /\ page = "register"
       \/ rendered = "register" /\ page = "login"
    /\ Rerun(Put(session_state, "page", page))
    /\ UNCHANGED <<users, returned, analyzer, pageVars, concVars, schedVars, zapVars>>

\* register_page, the form submitted
RegisterSubmit(username, password, confirm_password, email, terms, salt) ==
    /\ rendered = "register"
    /\ IF ~ terms \/ password # confirm_password
       THEN UNCHANGED <<users, returned, session_state, rendered>>
       ELSE /\ users' = add_user(users, username, password, email, salt).users
            /\ returned' = Returned("add_user", username, password, <<>>, <<>>,
                                    add_user(users, username, password, email, salt).ok,
                                    add_user(users, username, password, email, salt).message)
            /\ IF add_user(users, username, password, email, salt).ok
               THEN Rerun(Put(session_state, "page", "login"))
               ELSE UNCHANGED <<session_state, rendered>>
    /\ UNCHANGED <<analyzer, pageVars, concVars, schedVars, zapVars>>

\* show_sidebar_navbar, the Logout button
SidebarLogout ==
    /\ rendered = "main"
    /\ Rerun(Put(Put(<<>>, "authenticated", FALSE), "page", "login"))
    /\ UNCHANGED <<users, returned, analyzer, pageVars, concVars, schedVars, zapVars>>

\* show_profile_page, the Logout button
ProfileLogout ==
    /\ rendered = "main"
    /\ Rerun(Put(session_state, "authenticated", FALSE))
    /\ UNCHANGED <<users, returned, analyzer, pageVars, concVars, schedVars, zapVars>>

\* AuthenticationManager.update_current_user_profile, as the profile page
\* or any caller with a dictionary of updates calls it
UpdateProfile(updates, committed) ==
    /\ rendered = "main"
    /\ IF "username" \in DOMAIN session_state
       THEN /\ users' = update_user_profile(users, session_state["username"],
                                            updates, committed).users
            /\ returned' =
                  Returned("update_user_profile", session_state["username"], <<>>, <<>>,
                           updates,
                           update_user_profile(users, session_state["username"],
                                               updates, committed).ok,
                           update_user_profile(users, session_state["username"],
                                               updates, committed).message)
       ELSE /\ returned' = Returned("update_current_user_profile", "", <<>>, <<>>,
                                    updates, FALSE, "User not authenticated")
            /\ UNCHANGED users
    /\ UNCHANGED <<session_state, rendered, analyzer, pageVars, concVars, schedVars, zapVars>>

\* AuthenticationManager.change_password
ChangePassword(current_password, new_password, salt, committed) ==
    /\ rendered = "main"
    /\ IF "username" \in DOMAIN session_state
       THEN /\ users' = change_user_password(users, session_state["username"],
                                             current_password, new_password,
                                             salt, committed).users
            /\ returned' =
                  Returned("change_user_password", session_state["username"],
                           current_password, new_password, <<>>,
                           change_user_password(users, session_state["username"],
                                                current_password, new_password,
                                                salt, committed).ok,
                           change_user_password(users, session_state["username"],
                                                current_password, new_password,
                                                salt, committed).message)
       ELSE /\ returned' = Returned("change_password", "", current_password,
                                    new_password, <<>>, FALSE, "User not authenticated")
            /\ UNCHANGED users
    /\ UNCHANGED <<session_state, rendered, analyzer, pageVars, concVars, schedVars, zapVars>>

\* show_profile_page, the form 'Delete Account' submitted with the box
\* ticked: AuthenticationManager.delete_current_user, and when the account
\* is gone the session is cleared
DeleteAccount(password, committed) ==
    /\ rendered = "main"
    /\ IF "username" \in DOMAIN session_state
       THEN /\ users' = delete_user(users, session_state["username"], password,
                                    committed).users
            /\ returned' =
                  Returned("delete_user", session_state["username"], password, <<>>, <<>>,
                           delete_user(users, session_state["username"], password,
                                       committed).ok,
                           delete_user(users, session_state["username"], password,
                                       committed).message)
            /\ IF delete_user(users, session_state["username"], password, committed).ok
               THEN Rerun(<<>>)
               ELSE UNCHANGED <<session_state, rendered>>
       ELSE /\ returned' = Returned("delete_current_user", "", password, <<>>, <<>>,
                                    FALSE, "User not authenticated")
            /\ UNCHANGED <<users, session_state, rendered>>
    /\ UNCHANGED <<analyzer, pageVars, concVars, schedVars, zapVars>>

\* the first run of app.py in a new session, on an empty users table
InitAuth ==
    /\ NoPage
    /\ NoRequests
    /\ NoScheduler
    /\ NoZap
    /\ users = <<>>
    /\ session_state = app(<<>>)
    /\ rendered = main_routing(app(<<>>))
    /\ returned = Returned("", "", <<>>, <<>>, <<>>, FALSE, "")

NextAuth ==
    \/ \E username \in Usernames, password \in Passwords : LoginSubmit(username, password)
    \/ \E page \in {"login", "register"} : PageButton(page)
    \/ \E username \in Usernames, password, confirm_password \in Passwords,
          email \in Emails, terms \in BOOLEAN, salt \in Salts :
          RegisterSubmit(username, password, confirm_password, email, terms, salt)
    \/ SidebarLogout
    \/ ProfileLogout
    \/ \E updates \in Updates, committed \in BOOLEAN : UpdateProfile(updates, committed)
    \/ \E current_password, new_password \in Passwords, salt \in Salts,
          committed \in BOOLEAN :
          ChangePassword(current_password, new_password, salt, committed)
    \/ \E password \in Passwords, committed \in BOOLEAN : DeleteAccount(password, committed)

SpecAuth == InitAuth /\ [][NextAuth]_vars

(***************************************************************************)
(* Properties of the accounts and the session (checked under SpecAuth)     *)
(***************************************************************************)
\* the flag st.session_state.authenticated is there and True
Authenticated(session) ==
    "authenticated" \in DOMAIN session /\ session["authenticated"]

\* C27: the main application is rendered only when the session's
\* authenticated flag is True; the flag becomes True only in login_page
\* after verify_user returned true for the submitted username and password;
\* after the sidebar Logout the session is unauthenticated and shows the
\* login page.
C27_MainAppOnlyWhenAuthenticated ==
    /\ [](rendered = "main" => Authenticated(session_state))
    /\ [][(~ Authenticated(session_state) /\ Authenticated(session_state')) =>
             /\ rendered = "login"
             /\ returned'.call = "verify_user"
             /\ returned'.result[1]
             /\ verify_user(users, returned'.username, returned'.password)
             /\ session_state'["username"] = returned'.username]_vars
    /\ [][SidebarLogout =>
             /\ ~ Authenticated(session_state')
             /\ "username" \notin DOMAIN session_state'
             /\ rendered' = "login"]_vars

\* a user has logged in, and after the sidebar Logout the login page is
\* shown to a session with no user
C27_Witness ==
    /\ rendered = "login"
    /\ returned.call = "verify_user"
    /\ returned.result[1]
    /\ "username" \notin DOMAIN session_state
    /\ ~ Authenticated(session_state)

\* the call that returned was of change_user_password or delete_user and
\* had to fail on this table: the password given does not verify, or the
\* new password is shorter than 8 characters
MustFail(table, ret) ==
    /\ ret.call \in {"change_user_password", "delete_user"}
    /\ \/ ~ verify_user(table, ret.username, ret.password)
       \/ ret.call = "change_user_password" /\ Len(ret.new_password) < 8

\* C28: change_user_password and delete_user take effect only when the
\* current password verifies; when verification fails, or the new password
\* is shorter than 8 characters, they return (False, message) and the users
\* table is unchanged.
C28_PasswordGuardsChangeAndDelete ==
    [][((users' # users \/ returned' # returned) /\ MustFail(users, returned')) =>
          /\ users' = users
          /\ returned'.result[1] = FALSE
          /\ returned'.result[2] # ""]_vars

\* a deletion was refused for a password that does not verify, and the
\* account is still there
C28_Witness ==
    /\ returned.call = "delete_user"
    /\ returned.result = <<FALSE, "Invalid credentials.">>
    /\ returned.username \in DOMAIN users
    /\ ~ verify_user(users, returned.username, returned.password)

\* C29: update_user_profile changes only the columns full_name, bio and
\* profile_picture of the row of the named user; with no allowed key in the
\* updates nothing changes and it returns (False, 'No valid fields to
\* update').
C29_ProfileUpdateFrame ==
    [][((users' # users \/ returned' # returned)
            /\ returned'.call = "update_user_profile") =>
          /\ DOMAIN users' = DOMAIN users
          /\ \A u \in DOMAIN users :
                /\ u # returned'.username => users'[u] = users[u]
                /\ \A f \in DOMAIN users[u] \ {"full_name", "bio", "profile_picture"} :
                      users'[u][f] = users[u][f]
          /\ DOMAIN returned'.updates \cap {"full_name", "bio", "profile_picture"} = {} =>
                /\ users' = users
                /\ returned'.result = <<FALSE, "No valid fields to update">>]_vars

\* an update with an allowed key and the key role was applied to one of
\* two accounts: its full_name changed, its role did not
C29_Witness ==
    /\ returned.call = "update_user_profile"
    /\ DOMAIN returned.updates = {"full_name", "role"}
    /\ returned.result[1]
    /\ DOMAIN users = Usernames
    /\ users[returned.username].full_name = "Al"
    /\ users[returned.username].role = "user"

=============================================================================
